---- MODULE Spec2Model ----
(***************************************************************************)
(* QXMPAssetRegistry and QXMPProofOfReserve as one state machine.          *)
(*                                                                         *)
(* Every external function of the two contracts is a pure operator that    *)
(* maps the contract storage and the call's inputs to a call result        *)
(* (success with the new storage and the emitted events, or a revert with  *)
(* its reason string).  A transaction is one action: it applies the        *)
(* operator and, as the EVM does, commits the new storage only when the    *)
(* outermost call did not revert.                                          *)
(***************************************************************************)
EXTENDS Integers, Sequences, FiniteSets

---------------------------------------------------------------------------
(* Bounds of the model *)

\* asset values and oracle values range over 0..MaxValue (uint256 in the code)
MaxValue == 2
\* block.timestamp ranges over 1..MaxTime
MaxTime == 2
\* registerAsset is not attempted once assetCodes holds this many entries
MaxAssetCodes == 2

---------------------------------------------------------------------------
(* Addresses *)

ZeroAddress == "0x0"
\* externally owned accounts: the deployer and a second signer
Deployer == "owner"
Addr1 == "addr1"
\* contract addresses: two deployed registries and the proof-of-reserve contract
RegistryA == "registryA"
RegistryB == "registryB"
PoR == "proofOfReserve"

EOAs == {Deployer, Addr1}
RegistryAddrs == {RegistryA, RegistryB}
Addresses == {ZeroAddress} \cup EOAs \cup RegistryAddrs \cup {PoR}

---------------------------------------------------------------------------
(* Input domains *)

\* bytes32 asset codes (keccak256 of a human readable code)
AssetCodes == {"AKTA", "BETA"}
\* bytes32 RedStone data feed ids
DataFeedIds == {"AKTA", "XAU"}
Values == 0..MaxValue
\* bytes32 report hashes; ZeroHash is bytes32(0)
ZeroHash == "0x00"
AktaHash == "0x96e2e35d"
OtherHash == "0xffff"
ReportHashes == {ZeroHash, AktaHash, OtherHash}

\* the metadata arguments of registerAsset, as they travel together
AktaMeta ==
    [assetName |-> "AEM Gold Project", reportingStandard |-> "NI 43-101",
     jurisdiction |-> "ZA", mineralResourcesMt |-> 25000000,
     goldOzInSitu |-> 1562825, reportHash |-> AktaHash]
OtherMeta ==
    [assetName |-> "", reportingStandard |-> "SEC S-K 1300",
     jurisdiction |-> "US", mineralResourcesMt |-> 0,
     goldOzInSitu |-> 0, reportHash |-> ZeroHash]
Metas == {AktaMeta, OtherMeta}

---------------------------------------------------------------------------
(* Revert reasons *)

ErrOnlyOwner == "Only owner can call this function"
ErrInactive == "Asset does not exist or is inactive"
ErrRegistered == "Asset already registered"
ErrValue == "Asset value must be greater than 0"
ErrHolder == "Invalid holder address"
ErrIndex == "Index out of bounds"
ErrNewOwner == "Invalid new owner address"
ErrOracleValue == "Invalid oracle value"
ErrRegistryAddr == "Invalid registry address"
\* the RedStone base contract reverts with its own custom errors
ErrOracle == "RedStone: verification failed"
\* a high-level call to an address without the called function
ErrNoCode == ""

---------------------------------------------------------------------------
(* Call results *)

Revert(reason) == [ok |-> FALSE, reason |-> reason]
Ok(st, logs) == [ok |-> TRUE, reason |-> "", st |-> st, logs |-> logs]
Return(value) == [ok |-> TRUE, reason |-> "", value |-> value]

---------------------------------------------------------------------------
(* QXMPAssetRegistry *)

\* the value of a storage slot that was never written
EmptyAsset ==
    [assetCode |-> "", assetName |-> "", reportingStandard |-> "",
     jurisdiction |-> "", assetValueUsd |-> 0, mineralResourcesMt |-> 0,
     goldOzInSitu |-> 0, reportHash |-> ZeroHash, lastUpdated |-> 0,
     holder |-> ZeroAddress, isActive |-> FALSE]

\* storage of a registry right after its constructor ran
RegistryConstructor(sender) ==
    [assets |-> [c \in AssetCodes |-> EmptyAsset],
     assetCodes |-> <<>>,
     owner |-> sender]

\* onlyOwner letting every caller through
onlyOwner_Anyone(R, sender) == TRUE

\* modifier onlyOwner
onlyOwner(R, sender) == sender = R.owner

\* modifier assetExists
assetExists(R, assetCode) == R.assets[assetCode].isActive

\* registerAsset that validates the holder address and never stores it
registerAsset_HolderNotStored(R, sender, ts, assetCode, m, assetValueUsd, holderAddress) ==
    IF ~onlyOwner(R, sender) THEN Revert(ErrOnlyOwner)
    ELSE IF ~(~R.assets[assetCode].isActive) THEN Revert(ErrRegistered)
    ELSE IF ~(assetValueUsd > 0) THEN Revert(ErrValue)
    ELSE IF ~(holderAddress # ZeroAddress) THEN Revert(ErrHolder)
    ELSE Ok([R EXCEPT
                !.assets[assetCode] =
                    [assetCode |-> assetCode,
                     assetName |-> m.assetName,
                     reportingStandard |-> m.reportingStandard,
                     jurisdiction |-> m.jurisdiction,
                     assetValueUsd |-> assetValueUsd,
                     mineralResourcesMt |-> m.mineralResourcesMt,
                     goldOzInSitu |-> m.goldOzInSitu,
                     reportHash |-> m.reportHash,
                     lastUpdated |-> ts,
                     holder |-> ZeroAddress,
                     isActive |-> TRUE],
                !.assetCodes = Append(@, assetCode)],
            << <<"AssetRegistered", assetCode, m.assetName, assetValueUsd,
                 m.reportHash>> >>)

\* registerAsset putting the new code at the front of assetCodes
registerAsset_Prepends(R, sender, ts, assetCode, m, assetValueUsd, holderAddress) ==
    IF ~onlyOwner(R, sender) THEN Revert(ErrOnlyOwner)
    ELSE IF ~(~R.assets[assetCode].isActive) THEN Revert(ErrRegistered)
    ELSE IF ~(assetValueUsd > 0) THEN Revert(ErrValue)
    ELSE IF ~(holderAddress # ZeroAddress) THEN Revert(ErrHolder)
    ELSE Ok([R EXCEPT
                !.assets[assetCode] =
                    [assetCode |-> assetCode,
                     assetName |-> m.assetName,
                     reportingStandard |-> m.reportingStandard,
                     jurisdiction |-> m.jurisdiction,
                     assetValueUsd |-> assetValueUsd,
                     mineralResourcesMt |-> m.mineralResourcesMt,
                     goldOzInSitu |-> m.goldOzInSitu,
                     reportHash |-> m.reportHash,
                     lastUpdated |-> ts,
                     holder |-> holderAddress,
                     isActive |-> TRUE],
                !.assetCodes = <<assetCode>> \o @],
            << <<"AssetRegistered", assetCode, m.assetName, assetValueUsd,
                 m.reportHash>> >>)

\* registerAsset without its check of the holder address
registerAsset_NoHolderCheck(R, sender, ts, assetCode, m, assetValueUsd, holderAddress) ==
    IF ~onlyOwner(R, sender) THEN Revert(ErrOnlyOwner)
    ELSE IF ~(~R.assets[assetCode].isActive) THEN Revert(ErrRegistered)
    ELSE IF ~(assetValueUsd > 0) THEN Revert(ErrValue)
    ELSE Ok([R EXCEPT
                !.assets[assetCode] =
                    [assetCode |-> assetCode,
                     assetName |-> m.assetName,
                     reportingStandard |-> m.reportingStandard,
                     jurisdiction |-> m.jurisdiction,
                     assetValueUsd |-> assetValueUsd,
                     mineralResourcesMt |-> m.mineralResourcesMt,
                     goldOzInSitu |-> m.goldOzInSitu,
                     reportHash |-> m.reportHash,
                     lastUpdated |-> ts,
                     holder |-> holderAddress,
                     isActive |-> TRUE],
                !.assetCodes = Append(@, assetCode)],
            << <<"AssetRegistered", assetCode, m.assetName, assetValueUsd,
                 m.reportHash>> >>)

\* registerAsset storing the two quantities in each other's field
registerAsset_SwapsQuantities(R, sender, ts, assetCode, m, assetValueUsd, holderAddress) ==
    IF ~onlyOwner(R, sender) THEN Revert(ErrOnlyOwner)
    ELSE IF ~(~R.assets[assetCode].isActive) THEN Revert(ErrRegistered)
    ELSE IF ~(assetValueUsd > 0) THEN Revert(ErrValue)
    ELSE IF ~(holderAddress # ZeroAddress) THEN Revert(ErrHolder)
    ELSE Ok([R EXCEPT
                !.assets[assetCode] =
                    [assetCode |-> assetCode,
                     assetName |-> m.assetName,
                     reportingStandard |-> m.reportingStandard,
                     jurisdiction |-> m.jurisdiction,
                     assetValueUsd |-> assetValueUsd,
                     mineralResourcesMt |-> m.goldOzInSitu,
                     goldOzInSitu |-> m.mineralResourcesMt,
                     reportHash |-> m.reportHash,
                     lastUpdated |-> ts,
                     holder |-> holderAddress,
                     isActive |-> TRUE],
                !.assetCodes = Append(@, assetCode)],
            << <<"AssetRegistered", assetCode, m.assetName, assetValueUsd,
                 m.reportHash>> >>)

\* registerAsset checking the value before the duplicate
registerAsset_ValueCheckedFirst(R, sender, ts, assetCode, m, assetValueUsd, holderAddress) ==
    IF ~onlyOwner(R, sender) THEN Revert(ErrOnlyOwner)
    ELSE IF ~(assetValueUsd > 0) THEN Revert(ErrValue)
    ELSE IF ~(~R.assets[assetCode].isActive) THEN Revert(ErrRegistered)
    ELSE IF ~(holderAddress # ZeroAddress) THEN Revert(ErrHolder)
    ELSE Ok([R EXCEPT
                !.assets[assetCode] =
                    [assetCode |-> assetCode,
                     assetName |-> m.assetName,
                     reportingStandard |-> m.reportingStandard,
                     jurisdiction |-> m.jurisdiction,
                     assetValueUsd |-> assetValueUsd,
                     mineralResourcesMt |-> m.mineralResourcesMt,
                     goldOzInSitu |-> m.goldOzInSitu,
                     reportHash |-> m.reportHash,
                     lastUpdated |-> ts,
                     holder |-> holderAddress,
                     isActive |-> TRUE],
                !.assetCodes = Append(@, assetCode)],
            << <<"AssetRegistered", assetCode, m.assetName, assetValueUsd,
                 m.reportHash>> >>)

\* registerAsset without its push to assetCodes
registerAsset_NotAppended(R, sender, ts, assetCode, m, assetValueUsd, holderAddress) ==
    IF ~onlyOwner(R, sender) THEN Revert(ErrOnlyOwner)
    ELSE IF ~(~R.assets[assetCode].isActive) THEN Revert(ErrRegistered)
    ELSE IF ~(assetValueUsd > 0) THEN Revert(ErrValue)
    ELSE IF ~(holderAddress # ZeroAddress) THEN Revert(ErrHolder)
    ELSE Ok([R EXCEPT
                !.assets[assetCode] =
                    [assetCode |-> assetCode,
                     assetName |-> m.assetName,
                     reportingStandard |-> m.reportingStandard,
                     jurisdiction |-> m.jurisdiction,
                     assetValueUsd |-> assetValueUsd,
                     mineralResourcesMt |-> m.mineralResourcesMt,
                     goldOzInSitu |-> m.goldOzInSitu,
                     reportHash |-> m.reportHash,
                     lastUpdated |-> ts,
                     holder |-> holderAddress,
                     isActive |-> TRUE]],
            << <<"AssetRegistered", assetCode, m.assetName, assetValueUsd,
                 m.reportHash>> >>)

\* registerAsset checking the holder before the value
registerAsset_HolderCheckedFirst(R, sender, ts, assetCode, m, assetValueUsd, holderAddress) ==
    IF ~onlyOwner(R, sender) THEN Revert(ErrOnlyOwner)
    ELSE IF ~(~R.assets[assetCode].isActive) THEN Revert(ErrRegistered)
    ELSE IF ~(holderAddress # ZeroAddress) THEN Revert(ErrHolder)
    ELSE IF ~(assetValueUsd > 0) THEN Revert(ErrValue)
    ELSE Ok([R EXCEPT
                !.assets[assetCode] =
                    [assetCode |-> assetCode,
                     assetName |-> m.assetName,
                     reportingStandard |-> m.reportingStandard,
                     jurisdiction |-> m.jurisdiction,
                     assetValueUsd |-> assetValueUsd,
                     mineralResourcesMt |-> m.mineralResourcesMt,
                     goldOzInSitu |-> m.goldOzInSitu,
                     reportHash |-> m.reportHash,
                     lastUpdated |-> ts,
                     holder |-> holderAddress,
                     isActive |-> TRUE],
                !.assetCodes = Append(@, assetCode)],
            << <<"AssetRegistered", assetCode, m.assetName, assetValueUsd,
                 m.reportHash>> >>)

registerAsset(R, sender, ts, assetCode, m, assetValueUsd, holderAddress) ==
    IF ~onlyOwner(R, sender) THEN Revert(ErrOnlyOwner)
    ELSE IF ~(~R.assets[assetCode].isActive) THEN Revert(ErrRegistered)
    ELSE IF ~(assetValueUsd > 0) THEN Revert(ErrValue)
    ELSE IF ~(holderAddress # ZeroAddress) THEN Revert(ErrHolder)
    ELSE Ok([R EXCEPT
                !.assets[assetCode] =
                    [assetCode |-> assetCode,
                     assetName |-> m.assetName,
                     reportingStandard |-> m.reportingStandard,
                     jurisdiction |-> m.jurisdiction,
                     assetValueUsd |-> assetValueUsd,
                     mineralResourcesMt |-> m.mineralResourcesMt,
                     goldOzInSitu |-> m.goldOzInSitu,
                     reportHash |-> m.reportHash,
                     lastUpdated |-> ts,
                     holder |-> holderAddress,
                     isActive |-> TRUE],
                !.assetCodes = Append(@, assetCode)],
            << <<"AssetRegistered", assetCode, m.assetName, assetValueUsd,
                 m.reportHash>> >>)

\* updateAssetValue checking the new value before the record
updateAssetValue_ValueCheckedFirst(R, sender, ts, assetCode, newValueUsd) ==
    IF ~onlyOwner(R, sender) THEN Revert(ErrOnlyOwner)
    ELSE IF ~(newValueUsd > 0) THEN Revert(ErrValue)
    ELSE IF ~assetExists(R, assetCode) THEN Revert(ErrInactive)
    ELSE Ok([R EXCEPT
                !.assets[assetCode].assetValueUsd = newValueUsd,
                !.assets[assetCode].lastUpdated = ts],
            << <<"AssetUpdated", assetCode, newValueUsd, ts>> >>)

\* updateAssetValue that also makes its caller the holder of the record
updateAssetValue_SetsHolder(R, sender, ts, assetCode, newValueUsd) ==
    IF ~onlyOwner(R, sender) THEN Revert(ErrOnlyOwner)
    ELSE IF ~assetExists(R, assetCode) THEN Revert(ErrInactive)
    ELSE IF ~(newValueUsd > 0) THEN Revert(ErrValue)
    ELSE Ok([R EXCEPT
                !.assets[assetCode].assetValueUsd = newValueUsd,
                !.assets[assetCode].lastUpdated = ts,
                !.assets[assetCode].holder = sender],
            << <<"AssetUpdated", assetCode, newValueUsd, ts>> >>)

\* updateAssetValue without its check of the new value
updateAssetValue_NoValueCheck(R, sender, ts, assetCode, newValueUsd) ==
    IF ~onlyOwner(R, sender) THEN Revert(ErrOnlyOwner)
    ELSE IF ~assetExists(R, assetCode) THEN Revert(ErrInactive)
    ELSE Ok([R EXCEPT
                !.assets[assetCode].assetValueUsd = newValueUsd,
                !.assets[assetCode].lastUpdated = ts],
            << <<"AssetUpdated", assetCode, newValueUsd, ts>> >>)

\* updateAssetValue without its write of lastUpdated
updateAssetValue_NoTimestamp(R, sender, ts, assetCode, newValueUsd) ==
    IF ~onlyOwner(R, sender) THEN Revert(ErrOnlyOwner)
    ELSE IF ~assetExists(R, assetCode) THEN Revert(ErrInactive)
    ELSE IF ~(newValueUsd > 0) THEN Revert(ErrValue)
    ELSE Ok([R EXCEPT !.assets[assetCode].assetValueUsd = newValueUsd],
            << <<"AssetUpdated", assetCode, newValueUsd, ts>> >>)

updateAssetValue(R, sender, ts, assetCode, newValueUsd) ==
    IF ~onlyOwner(R, sender) THEN Revert(ErrOnlyOwner)
    ELSE IF ~assetExists(R, assetCode) THEN Revert(ErrInactive)
    ELSE IF ~(newValueUsd > 0) THEN Revert(ErrValue)
    ELSE Ok([R EXCEPT
                !.assets[assetCode].assetValueUsd = newValueUsd,
                !.assets[assetCode].lastUpdated = ts],
            << <<"AssetUpdated", assetCode, newValueUsd, ts>> >>)

\* deactivateAsset that also removes the code from assetCodes
deactivateAsset_RemovesCode(R, sender, assetCode) ==
    IF ~onlyOwner(R, sender) THEN Revert(ErrOnlyOwner)
    ELSE IF ~assetExists(R, assetCode) THEN Revert(ErrInactive)
    ELSE Ok([R EXCEPT !.assets[assetCode].isActive = FALSE,
                      !.assetCodes = SelectSeq(@, LAMBDA x : x # assetCode)],
            << <<"AssetDeactivated", assetCode>> >>)

\* deactivateAsset that also stamps the record with a cleared lastUpdated
deactivateAsset_ClearsTimestamp(R, sender, assetCode) ==
    IF ~onlyOwner(R, sender) THEN Revert(ErrOnlyOwner)
    ELSE IF ~assetExists(R, assetCode) THEN Revert(ErrInactive)
    ELSE Ok([R EXCEPT !.assets[assetCode].isActive = FALSE,
                      !.assets[assetCode].lastUpdated = 0],
            << <<"AssetDeactivated", assetCode>> >>)

\* deactivateAsset without the assetExists modifier
deactivateAsset_NoExistsCheck(R, sender, assetCode) ==
    IF ~onlyOwner(R, sender) THEN Revert(ErrOnlyOwner)
    ELSE Ok([R EXCEPT !.assets[assetCode].isActive = FALSE],
            << <<"AssetDeactivated", assetCode>> >>)

deactivateAsset(R, sender, assetCode) ==
    IF ~onlyOwner(R, sender) THEN Revert(ErrOnlyOwner)
    ELSE IF ~assetExists(R, assetCode) THEN Revert(ErrInactive)
    ELSE Ok([R EXCEPT !.assets[assetCode].isActive = FALSE],
            << <<"AssetDeactivated", assetCode>> >>)

getAsset(R, assetCode) ==
    IF ~assetExists(R, assetCode) THEN Revert(ErrInactive)
    ELSE Return(R.assets[assetCode])

verifyReportHash(R, assetCode, reportHash) ==
    IF ~assetExists(R, assetCode) THEN Revert(ErrInactive)
    ELSE Return(R.assets[assetCode].reportHash = reportHash)

getAssetCount(R) == Return(Len(R.assetCodes))

\* getAssetCodeByIndex whose bound check also rejects the last index
getAssetCodeByIndex_RejectsLast(R, index) ==
    IF ~(index + 1 < Len(R.assetCodes)) THEN Revert(ErrIndex)
    ELSE Return(R.assetCodes[index + 1])

\* index is a uint256, assetCodes is 0-based in the code
getAssetCodeByIndex(R, index) ==
    IF ~(index < Len(R.assetCodes)) THEN Revert(ErrIndex)
    ELSE Return(R.assetCodes[index + 1])

\* transferOwnership without the onlyOwner modifier
transferOwnership_AnyCaller(R, sender, newOwner) ==
    IF ~(newOwner # ZeroAddress) THEN Revert(ErrNewOwner)
    ELSE Ok([R EXCEPT !.owner = newOwner], <<>>)

\* transferOwnership that validates the new owner and never stores it
transferOwnership_NotStored(R, sender, newOwner) ==
    IF ~onlyOwner(R, sender) THEN Revert(ErrOnlyOwner)
    ELSE IF ~(newOwner # ZeroAddress) THEN Revert(ErrNewOwner)
    ELSE Ok(R, <<>>)

transferOwnership(R, sender, newOwner) ==
    IF ~onlyOwner(R, sender) THEN Revert(ErrOnlyOwner)
    ELSE IF ~(newOwner # ZeroAddress) THEN Revert(ErrNewOwner)
    ELSE Ok([R EXCEPT !.owner = newOwner], <<>>)

---------------------------------------------------------------------------
(* QXMPProofOfReserve *)

EmptyProof == [value |-> 0, timestamp |-> 0, dataFeedId |-> ""]

\* storage of the proof-of-reserve contract right after its constructor ran
PoRConstructor(sender, registryAddress) ==
    [registry |-> registryAddress,
     latestProofs |-> [c \in AssetCodes |-> EmptyProof],
     owner |-> sender]

\* onlyOwner of QXMPProofOfReserve comparing with the deployer, not the owner
porOnlyOwner_Deployer(P, sender) == sender = Deployer

\* modifier onlyOwner of QXMPProofOfReserve
porOnlyOwner(P, sender) == sender = P.owner

\* The RedStone payload appended to the transaction: one signed data point.
\* The base contract returns its value when the signatures reach the quorum
\* and the payload carries the requested feed, and reverts otherwise.
OraclePayloads ==
    [dataFeedId : DataFeedIds, value : Values, quorum : {TRUE}]
    \cup [dataFeedId : {"AKTA"}, value : {MaxValue}, quorum : {FALSE}]

getOracleNumericValueFromTxMsg(payload, dataFeedId) ==
    IF payload.quorum /\ payload.dataFeedId = dataFeedId
    THEN Return(payload.value)
    ELSE Revert(ErrOracle)

\* registry.updateAssetValue(...) reaching the registry as a call of the
\* registry's owner, whoever that is
callUpdateAssetValue_AsOwner(regs, target, ts, assetCode, newValueUsd) ==
    IF target \notin RegistryAddrs THEN Revert(ErrNoCode)
    ELSE updateAssetValue(regs[target], regs[target].owner, ts, assetCode,
                          newValueUsd)

\* registry.updateAssetValue(...) as called from the proof-of-reserve
\* contract: msg.sender is the contract; an address that is no registry has
\* no such function and the call reverts
callUpdateAssetValue(regs, target, ts, assetCode, newValueUsd) ==
    IF target \notin RegistryAddrs THEN Revert(ErrNoCode)
    ELSE updateAssetValue(regs[target], PoR, ts, assetCode, newValueUsd)

\* registry.registerAsset(...) as called from the proof-of-reserve contract
callRegisterAsset(regs, target, ts, assetCode, m, assetValueUsd, holder) ==
    IF target \notin RegistryAddrs THEN Revert(ErrNoCode)
    ELSE registerAsset(regs[target], PoR, ts, assetCode, m, assetValueUsd,
                       holder)

\* the storage of both contracts after a successful nested call
World(P, regs) == [por |-> P, regs |-> regs]

\* submitProof overwriting the value and the time of the stored proof and
\* keeping the feed of the proof before it
submitProof_KeepsOldFeed(P, regs, sender, ts, payload, assetCode, dataFeedId) ==
    IF ~porOnlyOwner(P, sender) THEN Revert(ErrOnlyOwner)
    ELSE
    LET oracle == getOracleNumericValueFromTxMsg(payload, dataFeedId) IN
    IF ~oracle.ok THEN Revert(oracle.reason)
    ELSE
    LET oracleValue == oracle.value IN
    IF ~(oracleValue > 0) THEN Revert(ErrOracleValue)
    ELSE
    LET P1 == [P EXCEPT !.latestProofs[assetCode].value = oracleValue,
                        !.latestProofs[assetCode].timestamp = ts]
        sub == callUpdateAssetValue(regs, P1.registry, ts, assetCode,
                                    oracleValue)
    IN  IF ~sub.ok THEN Revert(sub.reason)
        ELSE Ok(World(P1, [regs EXCEPT ![P1.registry] = sub.st]),
                sub.logs \o
                << <<"ProofSubmitted", assetCode, oracleValue, ts,
                     dataFeedId>> >>)

\* submitProof storing the proof without the block's time
submitProof_ZeroTimestamp(P, regs, sender, ts, payload, assetCode, dataFeedId) ==
    IF ~porOnlyOwner(P, sender) THEN Revert(ErrOnlyOwner)
    ELSE
    LET oracle == getOracleNumericValueFromTxMsg(payload, dataFeedId) IN
    IF ~oracle.ok THEN Revert(oracle.reason)
    ELSE
    LET oracleValue == oracle.value IN
    IF ~(oracleValue > 0) THEN Revert(ErrOracleValue)
    ELSE
    LET P1 == [P EXCEPT !.latestProofs[assetCode] =
                   [value |-> oracleValue, timestamp |-> 0,
                    dataFeedId |-> dataFeedId]]
        sub == callUpdateAssetValue(regs, P1.registry, ts, assetCode,
                                    oracleValue)
    IN  IF ~sub.ok THEN Revert(sub.reason)
        ELSE Ok(World(P1, [regs EXCEPT ![P1.registry] = sub.st]),
                sub.logs \o
                << <<"ProofSubmitted", assetCode, oracleValue, ts,
                     dataFeedId>> >>)

\* submitProof without its check of the verified value
submitProof_NoValueCheck(P, regs, sender, ts, payload, assetCode, dataFeedId) ==
    IF ~porOnlyOwner(P, sender) THEN Revert(ErrOnlyOwner)
    ELSE
    LET oracle == getOracleNumericValueFromTxMsg(payload, dataFeedId) IN
    IF ~oracle.ok THEN Revert(oracle.reason)
    ELSE
    LET oracleValue == oracle.value
        P1 == [P EXCEPT !.latestProofs[assetCode] =
                   [value |-> oracleValue, timestamp |-> ts,
                    dataFeedId |-> dataFeedId]]
        sub == callUpdateAssetValue(regs, P1.registry, ts, assetCode,
                                    oracleValue)
    IN  IF ~sub.ok THEN Revert(sub.reason)
        ELSE Ok(World(P1, [regs EXCEPT ![P1.registry] = sub.st]),
                sub.logs \o
                << <<"ProofSubmitted", assetCode, oracleValue, ts,
                     dataFeedId>> >>)

\* submitProof calling the registry with a low-level call whose failure it
\* ignores: the proof stays written when the registry rejects the update
submitProof_IgnoresSubCall(P, regs, sender, ts, payload, assetCode, dataFeedId) ==
    IF ~porOnlyOwner(P, sender) THEN Revert(ErrOnlyOwner)
    ELSE
    LET oracle == getOracleNumericValueFromTxMsg(payload, dataFeedId) IN
    IF ~oracle.ok THEN Revert(oracle.reason)
    ELSE
    LET oracleValue == oracle.value IN
    IF ~(oracleValue > 0) THEN Revert(ErrOracleValue)
    ELSE
    LET P1 == [P EXCEPT !.latestProofs[assetCode] =
                   [value |-> oracleValue, timestamp |-> ts,
                    dataFeedId |-> dataFeedId]]
        sub == callUpdateAssetValue(regs, P1.registry, ts, assetCode,
                                    oracleValue)
        ev == << <<"ProofSubmitted", assetCode, oracleValue, ts,
                   dataFeedId>> >>
    IN  IF ~sub.ok THEN Ok(World(P1, regs), ev)
        ELSE Ok(World(P1, [regs EXCEPT ![P1.registry] = sub.st]),
                sub.logs \o ev)

\* submitProof emitting ProofSubmitted before it calls the registry
submitProof_EmitsProofFirst(P, regs, sender, ts, payload, assetCode, dataFeedId) ==
    IF ~porOnlyOwner(P, sender) THEN Revert(ErrOnlyOwner)
    ELSE
    LET oracle == getOracleNumericValueFromTxMsg(payload, dataFeedId) IN
    IF ~oracle.ok THEN Revert(oracle.reason)
    ELSE
    LET oracleValue == oracle.value IN
    IF ~(oracleValue > 0) THEN Revert(ErrOracleValue)
    ELSE
    LET P1 == [P EXCEPT !.latestProofs[assetCode] =
                   [value |-> oracleValue, timestamp |-> ts,
                    dataFeedId |-> dataFeedId]]
        sub == callUpdateAssetValue(regs, P1.registry, ts, assetCode,
                                    oracleValue)
    IN  IF ~sub.ok THEN Revert(sub.reason)
        ELSE Ok(World(P1, [regs EXCEPT ![P1.registry] = sub.st]),
                << <<"ProofSubmitted", assetCode, oracleValue, ts,
                     dataFeedId>> >> \o sub.logs)

\* submitProof calling the registry before it checks the verified value
submitProof_RegistryCalledFirst(P, regs, sender, ts, payload, assetCode, dataFeedId) ==
    IF ~porOnlyOwner(P, sender) THEN Revert(ErrOnlyOwner)
    ELSE
    LET oracle == getOracleNumericValueFromTxMsg(payload, dataFeedId) IN
    IF ~oracle.ok THEN Revert(oracle.reason)
    ELSE
    LET oracleValue == oracle.value
        P1 == [P EXCEPT !.latestProofs[assetCode] =
                   [value |-> oracleValue, timestamp |-> ts,
                    dataFeedId |-> dataFeedId]]
        sub == callUpdateAssetValue(regs, P1.registry, ts, assetCode,
                                    oracleValue)
    IN  IF ~sub.ok THEN Revert(sub.reason)
        ELSE IF ~(oracleValue > 0) THEN Revert(ErrOracleValue)
        ELSE Ok(World(P1, [regs EXCEPT ![P1.registry] = sub.st]),
                sub.logs \o
                << <<"ProofSubmitted", assetCode, oracleValue, ts,
                     dataFeedId>> >>)

submitProof(P, regs, sender, ts, payload, assetCode, dataFeedId) ==
    IF ~porOnlyOwner(P, sender) THEN Revert(ErrOnlyOwner)
    ELSE
    LET oracle == getOracleNumericValueFromTxMsg(payload, dataFeedId) IN
    IF ~oracle.ok THEN Revert(oracle.reason)
    ELSE
    LET oracleValue == oracle.value IN
    IF ~(oracleValue > 0) THEN Revert(ErrOracleValue)
    ELSE
    LET P1 == [P EXCEPT !.latestProofs[assetCode] =
                   [value |-> oracleValue, timestamp |-> ts,
                    dataFeedId |-> dataFeedId]]
        sub == callUpdateAssetValue(regs, P1.registry, ts, assetCode,
                                    oracleValue)
    IN  \* a revert of the nested call reverts the whole transaction
        IF ~sub.ok THEN Revert(sub.reason)
        ELSE Ok(World(P1, [regs EXCEPT ![P1.registry] = sub.st]),
                sub.logs \o
                << <<"ProofSubmitted", assetCode, oracleValue, ts,
                     dataFeedId>> >>)

getLatestProof(P, assetCode) == Return(P.latestProofs[assetCode])

\* getOracleValue with the require on the value that submitProof has
getOracleValue_RequiresPositive(P, sender, payload, dataFeedId) ==
    LET oracle == getOracleNumericValueFromTxMsg(payload, dataFeedId)
    IN  IF ~oracle.ok THEN Revert(oracle.reason)
        ELSE IF ~(oracle.value > 0) THEN Revert(ErrOracleValue)
        ELSE Return(oracle.value)

\* external view, without modifier: neither the storage P nor the caller
\* is read
getOracleValue(P, sender, payload, dataFeedId) ==
    getOracleNumericValueFromTxMsg(payload, dataFeedId)

\* the forwarding registerAsset passing its caller as the holder
porRegisterAsset_HolderIsSender(P, regs, sender, ts, assetCode, m, assetValueUsd, holder) ==
    IF ~porOnlyOwner(P, sender) THEN Revert(ErrOnlyOwner)
    ELSE
    LET sub == callRegisterAsset(regs, P.registry, ts, assetCode, m,
                                 assetValueUsd, sender)
    IN  IF ~sub.ok THEN Revert(sub.reason)
        ELSE Ok(World(P, [regs EXCEPT ![P.registry] = sub.st]), sub.logs)

porRegisterAsset(P, regs, sender, ts, assetCode, m, assetValueUsd, holder) ==
    IF ~porOnlyOwner(P, sender) THEN Revert(ErrOnlyOwner)
    ELSE
    LET sub == callRegisterAsset(regs, P.registry, ts, assetCode, m,
                                 assetValueUsd, holder)
    IN  IF ~sub.ok THEN Revert(sub.reason)
        ELSE Ok(World(P, [regs EXCEPT ![P.registry] = sub.st]), sub.logs)

\* updateRegistry that validates the new address and never stores it
updateRegistry_NotStored(P, sender, newRegistry) ==
    IF ~porOnlyOwner(P, sender) THEN Revert(ErrOnlyOwner)
    ELSE IF ~(newRegistry # ZeroAddress) THEN Revert(ErrRegistryAddr)
    ELSE Ok(P, << <<"RegistryUpdated", newRegistry>> >>)

updateRegistry(P, sender, newRegistry) ==
    IF ~porOnlyOwner(P, sender) THEN Revert(ErrOnlyOwner)
    ELSE IF ~(newRegistry # ZeroAddress) THEN Revert(ErrRegistryAddr)
    ELSE Ok([P EXCEPT !.registry = newRegistry],
            << <<"RegistryUpdated", newRegistry>> >>)

\* transferOwnership of QXMPProofOfReserve without its check of the new owner
porTransferOwnership_NoZeroCheck(P, sender, newOwner) ==
    IF ~porOnlyOwner(P, sender) THEN Revert(ErrOnlyOwner)
    ELSE Ok([P EXCEPT !.owner = newOwner], <<>>)

porTransferOwnership(P, sender, newOwner) ==
    IF ~porOnlyOwner(P, sender) THEN Revert(ErrOnlyOwner)
    ELSE IF ~(newOwner # ZeroAddress) THEN Revert(ErrNewOwner)
    ELSE Ok([P EXCEPT !.owner = newOwner], <<>>)

---------------------------------------------------------------------------
(* Transactions *)

\* The outcome of a transaction sent to world W (the storage of both
\* contracts): the call's result and the storage the EVM leaves behind.  A
\* reverted transaction leaves every storage slot as it was.
Outcome(res, W, committed) ==
    [ok |-> res.ok, reason |-> res.reason,
     logs |-> IF res.ok THEN res.logs ELSE <<>>,
     regs |-> IF res.ok THEN committed.regs ELSE W.regs,
     por |-> IF res.ok THEN committed.por ELSE W.por]

\* a call to a registry function: on success the registry's storage is res.st
RegistryTx(W, to, res) ==
    Outcome(res, W,
            IF res.ok THEN World(W.por, [W.regs EXCEPT ![to] = res.st])
            ELSE W)

\* a call to a proof-of-reserve function that calls into a registry
NestedTx(W, res) == Outcome(res, W, IF res.ok THEN res.st ELSE W)

\* a call to a proof-of-reserve function that touches its own storage only
PoRTx(W, res) ==
    Outcome(res, W, IF res.ok THEN World(res.st, W.regs) ELSE W)

sendRegisterAsset(W, ts, sender, to, assetCode, m, value, holder) ==
    RegistryTx(W, to,
        registerAsset(W.regs[to], sender, ts, assetCode, m, value, holder))

sendUpdateAssetValue(W, ts, sender, to, assetCode, value) ==
    RegistryTx(W, to,
        updateAssetValue(W.regs[to], sender, ts, assetCode, value))

sendDeactivateAsset(W, sender, to, assetCode) ==
    RegistryTx(W, to, deactivateAsset(W.regs[to], sender, assetCode))

sendTransferOwnership(W, sender, to, newOwner) ==
    RegistryTx(W, to, transferOwnership(W.regs[to], sender, newOwner))

sendSubmitProof(W, ts, sender, payload, assetCode, dataFeedId) ==
    NestedTx(W,
        submitProof(W.por, W.regs, sender, ts, payload, assetCode,
                    dataFeedId))

sendPoRRegisterAsset(W, ts, sender, assetCode, m, value, holder) ==
    NestedTx(W,
        porRegisterAsset(W.por, W.regs, sender, ts, assetCode, m, value,
                         holder))

\* a call of a view function in world W: its result and the storage it
\* leaves, which for a view function is the storage it found
ViewCall(W, res) == [res |-> res, regs |-> W.regs, por |-> W.por]

callGetOracleValue(W, sender, payload, dataFeedId) ==
    ViewCall(W, getOracleValue(W.por, sender, payload, dataFeedId))

sendUpdateRegistry(W, sender, newRegistry) ==
    PoRTx(W, updateRegistry(W.por, sender, newRegistry))

sendPoRTransferOwnership(W, sender, newOwner) ==
    PoRTx(W, porTransferOwnership(W.por, sender, newOwner))

---------------------------------------------------------------------------
(* The ledger *)

VARIABLES
    regs,       \* storage of each deployed QXMPAssetRegistry, by address
    por,        \* storage of the QXMPProofOfReserve contract
    now,        \* block.timestamp of the block being built
    lastProofSubmitted, \* the event log of the proof-of-reserve contract:
                        \* per asset code its latest ProofSubmitted event,
                        \* <<>> when the log has none
    lastWritten \* the transaction history: per registry and asset code the
                \* block.timestamp of the latest successful registerAsset,
                \* updateAssetValue or submitProof, 0 when there is none

vars == <<regs, por, now, lastProofSubmitted, lastWritten>>

\* the storage of both contracts in the current state
Chain == World(por, regs)

\* deploy.js and the tests' beforeEach: the deployer deploys the registries
\* and then the proof-of-reserve contract on the first registry
Init ==
    /\ regs = [a \in RegistryAddrs |-> RegistryConstructor(Deployer)]
    /\ por = PoRConstructor(Deployer, RegistryA)
    /\ now = 1
    /\ lastProofSubmitted = [c \in AssetCodes |-> <<>>]
    /\ lastWritten = [r \in RegistryAddrs |-> [c \in AssetCodes |-> 0]]

\* the ProofSubmitted events among the events a transaction emitted
ProofSubmittedIn(logs) == SelectSeq(logs, LAMBDA e : e[1] = "ProofSubmitted")

\* the ledger applies a transaction's outcome: the storage it leaves, which
\* for a reverted transaction is the storage it found
Commit(out) ==
    /\ regs' = out.regs
    /\ por' = out.por
    /\ lastProofSubmitted' =
           LET evs == ProofSubmittedIn(out.logs)
           IN  IF evs = <<>> THEN lastProofSubmitted
               ELSE [lastProofSubmitted EXCEPT
                        ![evs[Len(evs)][2]] = evs[Len(evs)]]
    /\ UNCHANGED now

\* the history after a transaction with outcome out that, when it succeeds,
\* writes the record of assetCode in registry r at the block's time
Written(out, r, assetCode) ==
    IF out.ok THEN [lastWritten EXCEPT ![r][assetCode] = now]
    ELSE lastWritten

TxRegisterAsset(sender, to, assetCode, m, value, holder) ==
    /\ Len(regs[to].assetCodes) < MaxAssetCodes
    /\ LET out == sendRegisterAsset(Chain, now, sender, to, assetCode, m,
                                    value, holder)
       IN  Commit(out) /\ lastWritten' = Written(out, to, assetCode)

TxUpdateAssetValue(sender, to, assetCode, value) ==
    LET out == sendUpdateAssetValue(Chain, now, sender, to, assetCode, value)
    IN  Commit(out) /\ lastWritten' = Written(out, to, assetCode)

TxDeactivateAsset(sender, to, assetCode) ==
    /\ Commit(sendDeactivateAsset(Chain, sender, to, assetCode))
    /\ UNCHANGED lastWritten

TxTransferOwnership(sender, to, newOwner) ==
    /\ Commit(sendTransferOwnership(Chain, sender, to, newOwner))
    /\ UNCHANGED lastWritten

TxSubmitProof(sender, payload, assetCode, dataFeedId) ==
    LET out == sendSubmitProof(Chain, now, sender, payload, assetCode,
                               dataFeedId)
    IN  Commit(out) /\ lastWritten' = Written(out, por.registry, assetCode)

TxPoRRegisterAsset(sender, assetCode, m, value, holder) ==
    /\ por.registry \in RegistryAddrs
          => Len(regs[por.registry].assetCodes) < MaxAssetCodes
    /\ LET out == sendPoRRegisterAsset(Chain, now, sender, assetCode, m,
                                       value, holder)
       IN  Commit(out) /\ lastWritten' = Written(out, por.registry, assetCode)

TxUpdateRegistry(sender, newRegistry) ==
    /\ Commit(sendUpdateRegistry(Chain, sender, newRegistry))
    /\ UNCHANGED lastWritten

TxPoRTransferOwnership(sender, newOwner) ==
    /\ Commit(sendPoRTransferOwnership(Chain, sender, newOwner))
    /\ UNCHANGED lastWritten

\* a new block: block.timestamp grows
Tick ==
    /\ now < MaxTime
    /\ now' = now + 1
    /\ UNCHANGED <<regs, por, lastProofSubmitted, lastWritten>>

---------------------------------------------------------------------------
(* The transactions offered to the ledger *)

\* direct registry transactions go to the registry of deploy.js; the second
\* registry is only ever called through the proof-of-reserve contract
Targets == {RegistryA}
Holders == {ZeroAddress, Deployer}
NewOwners == {ZeroAddress, Deployer, Addr1, PoR}
PoRNewOwners == {ZeroAddress, Deployer, Addr1}
NewRegistries == {ZeroAddress, RegistryA, RegistryB}

\* A reverted transaction changes nothing, so the inputs offered here decide
\* which states are reached only through the calls that succeed: AKTA is
\* offered with every valid value, BETA, the second asset against which
\* frame conditions are read, with one, and each kind of invalid argument is
\* offered once.  The properties quantify over all arguments themselves.
RegisterInputs ==
    ({"AKTA"} \X {AktaMeta} \X (Values \ {0}) \X {Deployer})
    \cup {<<"AKTA", AktaMeta, 0, Deployer>>,
          <<"AKTA", AktaMeta, 1, ZeroAddress>>,
          <<"BETA", OtherMeta, 1, Deployer>>}
UpdateInputs == ({"AKTA"} \X Values) \cup {<<"BETA", 1>>}
\* AKTA is the asset that is deactivated (and registered again)
DeactivateInputs == {"AKTA"}
SubmitInputs ==
    {<<"AKTA", p.dataFeedId, p>> : p \in {q \in OraclePayloads : q.quorum}}
    \cup {<<"AKTA", "AKTA", p>> : p \in {q \in OraclePayloads : ~q.quorum}}
    \cup {<<"BETA", "XAU",
            [dataFeedId |-> "XAU", value |-> 1, quorum |-> TRUE]>>}

Next ==
    \/ \E s \in EOAs, to \in Targets, i \in RegisterInputs :
          TxRegisterAsset(s, to, i[1], i[2], i[3], i[4])
    \/ \E s \in EOAs, to \in Targets, i \in UpdateInputs :
          TxUpdateAssetValue(s, to, i[1], i[2])
    \/ \E s \in EOAs, to \in Targets, c \in DeactivateInputs :
          TxDeactivateAsset(s, to, c)
    \/ \E s \in EOAs, to \in Targets, o \in NewOwners :
          TxTransferOwnership(s, to, o)
    \/ \E s \in EOAs, i \in SubmitInputs :
          TxSubmitProof(s, i[3], i[1], i[2])
    \/ \E s \in EOAs, i \in RegisterInputs :
          TxPoRRegisterAsset(s, i[1], i[2], i[3], i[4])
    \/ \E s \in EOAs, r \in NewRegistries : TxUpdateRegistry(s, r)
    \/ \E s \in EOAs, o \in PoRNewOwners : TxPoRTransferOwnership(s, o)
    \/ Tick

Spec == Init /\ [][Next]_vars

---------------------------------------------------------------------------
(* Properties *)

\* the addresses that send calls: the accounts and, through its two
\* forwarding functions, the proof-of-reserve contract
Senders == EOAs \cup {PoR}

\* a storage slot of assets that registerAsset has written at some time
recordExists(R, assetCode) == R.assets[assetCode] # EmptyAsset

\* the value a payload verifies to for a feed, 0 when verification fails
verified(payload, dataFeedId) ==
    LET oracle == getOracleNumericValueFromTxMsg(payload, dataFeedId)
    IN  IF oracle.ok THEN oracle.value ELSE 0

\* submitProof by sender reaches its call of registry.updateAssetValue
reachesSubCall(sender, payload, dataFeedId) ==
    /\ porOnlyOwner(por, sender)
    /\ getOracleNumericValueFromTxMsg(payload, dataFeedId).ok
    /\ verified(payload, dataFeedId) > 0

\* C1: submitProof is all-or-nothing.  In every reachable state and for
\* every submitProof transaction that gets as far as the call of
\* registry.updateAssetValue: when that call reverts (asset never
\* registered, asset inactive, or the proof-of-reserve contract is not the
\* registry's owner), the transaction reverts with the same reason and
\* leaves every proof and the whole storage of every registry as it was.
C1_SubmitProofAllOrNothing ==
    \A s \in Senders, c \in AssetCodes, f \in DataFeedIds,
       p \in OraclePayloads :
        LET sub == callUpdateAssetValue(regs, por.registry, now, c,
                                        verified(p, f))
            out == sendSubmitProof(Chain, now, s, p, c, f)
        IN  (reachesSubCall(s, p, f) /\ ~sub.ok) =>
                /\ ~out.ok
                /\ out.reason = sub.reason
                /\ out.por = por
                /\ out.regs = regs

\* C1 witness: a proof is stored for an asset, and a further submitProof
\* for that asset with a verified value reverts in the registry
C1_Witness ==
    \E s \in Senders, c \in AssetCodes, f \in DataFeedIds,
       p \in OraclePayloads :
        /\ reachesSubCall(s, p, f)
        /\ por.latestProofs[c].timestamp > 0
        /\ por.latestProofs[c].value # verified(p, f)
        /\ ~sendSubmitProof(Chain, now, s, p, c, f).ok

\* C2: in every reachable state, a submitProof(A, F) transaction that
\* succeeds with verified value V at block time t leaves
\* getLatestProof(A) = {V, t, F}, and getAsset(A) on the referenced registry
\* returns the record with assetValueUsd = V and lastUpdated = t, all other
\* fields as before.
C2_SubmitProofUpdatesBoth ==
    \A s \in Senders, c \in AssetCodes, f \in DataFeedIds,
       p \in OraclePayloads :
        LET V == verified(p, f)
            out == sendSubmitProof(Chain, now, s, p, c, f)
        IN  out.ok =>
                /\ V > 0
                /\ getLatestProof(out.por, c) =
                       Return([value |-> V, timestamp |-> now,
                               dataFeedId |-> f])
                /\ getAsset(out.regs[por.registry], c) =
                       Return([regs[por.registry].assets[c] EXCEPT
                                  !.assetValueUsd = V, !.lastUpdated = now])
                /\ regs[por.registry].assets[c].isActive

\* C2 witness: an asset registered with one value carries, after a
\* successful submitProof in a later block, the verified value
C2_Witness ==
    /\ now = MaxTime
    /\ regs[por.registry].assets["AKTA"].assetName = AktaMeta.assetName
    /\ por.latestProofs["AKTA"] =
           [value |-> MaxValue, timestamp |-> MaxTime, dataFeedId |-> "XAU"]
    /\ regs[por.registry].assets["AKTA"].assetValueUsd = MaxValue
    /\ regs[por.registry].assets["AKTA"].lastUpdated = MaxTime

\* C3: inactive is terminal.  Once a record exists and is inactive (only
\* deactivateAsset clears isActive), no step of either contract makes it
\* active again.
C3_InactiveIsTerminal ==
    [][\A r \in RegistryAddrs, c \in AssetCodes :
          (recordExists(regs[r], c) /\ ~regs[r].assets[c].isActive)
              => ~regs'[r].assets[c].isActive]_vars

\* the number of distinct codes that registerAsset has ever stored
codesEverRegistered(R) == Cardinality({c \in AssetCodes : recordExists(R, c)})

\* C4: in every reachable state the length of assetCodes equals the number
\* of distinct codes ever registered: no code occurs twice in assetCodes.
C4_SequenceCountsDistinctCodes ==
    \A r \in RegistryAddrs :
        Len(regs[r].assetCodes) = codesEverRegistered(regs[r])

\* C5: registry access control.  In every reachable state, for every
\* registry, every caller other than its owner and all arguments,
\* registerAsset, updateAssetValue, deactivateAsset and transferOwnership
\* revert with the owner-only reason and leave the storage of both
\* contracts as it was.
C5_RegistryOnlyOwner ==
    \A to \in RegistryAddrs : \A s \in Senders \ {regs[to].owner} :
        LET denied(out) ==
                /\ ~out.ok
                /\ out.reason = ErrOnlyOwner
                /\ out.regs = regs
                /\ out.por = por
        IN  /\ \A c \in AssetCodes, m \in Metas, v \in Values,
                  h \in Holders :
                  denied(sendRegisterAsset(Chain, now, s, to, c, m, v, h))
            /\ \A c \in AssetCodes, v \in Values :
                  denied(sendUpdateAssetValue(Chain, now, s, to, c, v))
            /\ \A c \in AssetCodes :
                  denied(sendDeactivateAsset(Chain, s, to, c))
            /\ \A o \in NewOwners :
                  denied(sendTransferOwnership(Chain, s, to, o))

\* C5 witness: the registry holds an active asset, its ownership has moved
\* to the second signer, and the deployer's updateAssetValue with valid
\* arguments is rejected
C5_Witness ==
    /\ regs[RegistryA].owner = Addr1
    /\ regs[RegistryA].assets["AKTA"].isActive
    /\ sendUpdateAssetValue(Chain, now, Deployer, RegistryA, "AKTA",
                            MaxValue).reason = ErrOnlyOwner

\* C6: proof-of-reserve access control.  In every reachable state, for
\* every caller other than the contract's owner and all arguments (a valid
\* payload included), submitProof, registerAsset, updateRegistry and
\* transferOwnership revert with the owner-only reason and leave the storage
\* of both contracts as it was.
C6_PoROnlyOwner ==
    \A s \in Senders \ {por.owner} :
        LET denied(out) ==
                /\ ~out.ok
                /\ out.reason = ErrOnlyOwner
                /\ out.regs = regs
                /\ out.por = por
        IN  /\ \A c \in AssetCodes, f \in DataFeedIds, p \in OraclePayloads :
                  denied(sendSubmitProof(Chain, now, s, p, c, f))
            /\ \A c \in AssetCodes, m \in Metas, v \in Values,
                  h \in Holders :
                  denied(sendPoRRegisterAsset(Chain, now, s, c, m, v, h))
            /\ \A r \in NewRegistries : denied(sendUpdateRegistry(Chain, s, r))
            /\ \A o \in NewOwners :
                  denied(sendPoRTransferOwnership(Chain, s, o))

\* C6 witness: the proof-of-reserve contract owns the registry of an active
\* asset, so that its owner's submitProof succeeds, and the same submitProof
\* sent by another account is rejected
C6_Witness ==
    \E s \in EOAs \ {por.owner}, p \in OraclePayloads :
        /\ regs[por.registry].owner = PoR
        /\ sendSubmitProof(Chain, now, por.owner, p, "AKTA", "AKTA").ok
        /\ sendSubmitProof(Chain, now, s, p, "AKTA", "AKTA").reason =
               ErrOnlyOwner

\* caller s is turned away by every state-changing function of registry
\* `to` in world W, whatever the arguments
registryRejects(W, to, s) ==
    /\ \A c \in AssetCodes, m \in Metas, v \in Values, h \in Holders :
          registerAsset(W.regs[to], s, now, c, m, v, h) = Revert(ErrOnlyOwner)
    /\ \A c \in AssetCodes, v \in Values :
          updateAssetValue(W.regs[to], s, now, c, v) = Revert(ErrOnlyOwner)
    /\ \A c \in AssetCodes :
          deactivateAsset(W.regs[to], s, c) = Revert(ErrOnlyOwner)
    /\ \A o \in NewOwners :
          transferOwnership(W.regs[to], s, o) = Revert(ErrOnlyOwner)

\* caller s succeeds with every state-changing function of registry `to` in
\* world W whose other arguments are valid
registryAccepts(W, to, s) ==
    /\ \A c \in AssetCodes, m \in Metas, v \in Values, h \in Holders :
          (~W.regs[to].assets[c].isActive /\ v > 0 /\ h # ZeroAddress)
              => registerAsset(W.regs[to], s, now, c, m, v, h).ok
    /\ \A c \in AssetCodes, v \in Values :
          (W.regs[to].assets[c].isActive /\ v > 0)
              => updateAssetValue(W.regs[to], s, now, c, v).ok
    /\ \A c \in AssetCodes :
          W.regs[to].assets[c].isActive
              => deactivateAsset(W.regs[to], s, c).ok
    /\ \A o \in NewOwners \ {ZeroAddress} :
          transferOwnership(W.regs[to], s, o).ok

\* caller s is turned away by every state-changing function of the
\* proof-of-reserve contract in world W, whatever the arguments
porRejects(W, s) ==
    /\ \A c \in AssetCodes, f \in DataFeedIds, p \in OraclePayloads :
          submitProof(W.por, W.regs, s, now, p, c, f) = Revert(ErrOnlyOwner)
    /\ \A c \in AssetCodes, m \in Metas, v \in Values, h \in Holders :
          porRegisterAsset(W.por, W.regs, s, now, c, m, v, h) =
              Revert(ErrOnlyOwner)
    /\ \A r \in NewRegistries : updateRegistry(W.por, s, r) = Revert(ErrOnlyOwner)
    /\ \A o \in NewOwners :
          porTransferOwnership(W.por, s, o) = Revert(ErrOnlyOwner)

\* caller s succeeds with every state-changing function of the
\* proof-of-reserve contract in world W whose other arguments are valid:
\* for the two functions that call the registry, arguments the registry
\* accepts from the contract
porAccepts(W, s) ==
    /\ \A c \in AssetCodes, f \in DataFeedIds, p \in OraclePayloads :
          (/\ verified(p, f) > 0
           /\ callUpdateAssetValue(W.regs, W.por.registry, now, c,
                                   verified(p, f)).ok)
              => submitProof(W.por, W.regs, s, now, p, c, f).ok
    /\ \A c \in AssetCodes, m \in Metas, v \in Values, h \in Holders :
          callRegisterAsset(W.regs, W.por.registry, now, c, m, v, h).ok
              => porRegisterAsset(W.por, W.regs, s, now, c, m, v, h).ok
    /\ \A r \in NewRegistries \ {ZeroAddress} :
          updateRegistry(W.por, s, r).ok
    /\ \A o \in NewOwners \ {ZeroAddress} :
          porTransferOwnership(W.por, s, o).ok

\* transferOwnership(X) by the owner of registry `to` succeeds, after it the
\* previous owner is turned away and X is let in
registryHandsOver(to, X) ==
    LET prev == regs[to].owner
        out == sendTransferOwnership(Chain, prev, to, X)
        W1 == World(out.por, out.regs)
    IN  /\ out.ok
        /\ registryRejects(W1, to, prev)
        /\ registryAccepts(W1, to, X)

\* the same for the proof-of-reserve contract
porHandsOver(X) ==
    LET prev == por.owner
        out == sendPoRTransferOwnership(Chain, prev, X)
        W1 == World(out.por, out.regs)
    IN  /\ out.ok
        /\ porRejects(W1, prev)
        /\ porAccepts(W1, X)

\* C7 as stated: for every non-zero identity X and either contract, after
\* the owner's transferOwnership(X) the previous owner's next state-changing
\* call reverts with the owner-only reason and X's next call with valid
\* arguments succeeds.
C7_TransferToAnyIdentity ==
    /\ \A to \in RegistryAddrs, X \in NewOwners \ {ZeroAddress} :
          registryHandsOver(to, X)
    /\ \A X \in NewOwners \ {ZeroAddress} : porHandsOver(X)

\* C7 amended: the same for every non-zero identity X other than the
\* current owner (transferOwnership(owner) succeeds and changes nothing).
C7_TransferToOtherIdentity ==
    /\ \A to \in RegistryAddrs :
          \A X \in NewOwners \ {ZeroAddress, regs[to].owner} :
              registryHandsOver(to, X)
    /\ \A X \in NewOwners \ {ZeroAddress, por.owner} : porHandsOver(X)

\* C7 witness: the registry's ownership has just moved from the deployer
\* to the proof-of-reserve contract, the contract's to the second signer
C7_Witness ==
    /\ regs[RegistryA].owner = PoR
    /\ por.owner = Addr1
    /\ regs[RegistryA].assets["AKTA"].isActive

\* C8: in every reachable state every record that exists in a registry,
\* active or not, has assetValueUsd > 0.
C8_ValuePositive ==
    \A r \in RegistryAddrs, c \in AssetCodes :
        recordExists(regs[r], c) => regs[r].assets[c].assetValueUsd > 0

\* C8 witness: one record was deactivated, another was registered and then
\* revalued by a submitProof
C8_Witness ==
    /\ recordExists(regs[RegistryA], "AKTA")
    /\ ~regs[RegistryA].assets["AKTA"].isActive
    /\ regs[RegistryA].assets["BETA"].isActive
    /\ por.latestProofs["BETA"].value =
           regs[RegistryA].assets["BETA"].assetValueUsd
    /\ por.latestProofs["BETA"].timestamp =
           regs[RegistryA].assets["BETA"].lastUpdated

\* C9: in every reachable state, registerAsset by the registry's owner for
\* a code without active record, with value > 0 and a non-zero holder,
\* succeeds; getAsset then returns exactly the registered fields with
\* isActive = TRUE and lastUpdated = block.timestamp; getAssetCount is one
\* more than before and the code is at index getAssetCount() - 1.
C9_RegisterThenGet ==
    \A to \in RegistryAddrs, c \in AssetCodes, m \in Metas,
       v \in Values \ {0}, h \in EOAs :
        LET R == regs[to]
            out == sendRegisterAsset(Chain, now, R.owner, to, c, m, v, h)
            R1 == out.regs[to]
        IN  ~R.assets[c].isActive =>
                /\ out.ok
                /\ getAsset(R1, c) =
                       Return([assetCode |-> c,
                               assetName |-> m.assetName,
                               reportingStandard |-> m.reportingStandard,
                               jurisdiction |-> m.jurisdiction,
                               assetValueUsd |-> v,
                               mineralResourcesMt |-> m.mineralResourcesMt,
                               goldOzInSitu |-> m.goldOzInSitu,
                               reportHash |-> m.reportHash,
                               lastUpdated |-> now,
                               holder |-> h,
                               isActive |-> TRUE])
                /\ getAssetCount(R1).value = getAssetCount(R).value + 1
                /\ getAssetCodeByIndex(R1, getAssetCount(R1).value - 1) =
                       Return(c)

\* C9 witness: AKTA was registered in a later block as the second entry
C9_Witness ==
    /\ getAsset(regs[RegistryA], "AKTA") =
           Return([assetCode |-> "AKTA",
                   assetName |-> "AEM Gold Project",
                   reportingStandard |-> "NI 43-101",
                   jurisdiction |-> "ZA",
                   assetValueUsd |-> MaxValue,
                   mineralResourcesMt |-> 25000000,
                   goldOzInSitu |-> 1562825,
                   reportHash |-> AktaHash,
                   lastUpdated |-> MaxTime,
                   holder |-> Deployer,
                   isActive |-> TRUE])
    /\ regs[RegistryA].assetCodes = <<"BETA", "AKTA">>

\* C10: in every reachable state, registerAsset by the registry's owner for
\* a code with an active record reverts with "Asset already registered",
\* whatever the other arguments, and leaves the storage of both contracts
\* (the record and assetCodes included) as it was.
C10_DuplicateRejected ==
    \A to \in RegistryAddrs, c \in AssetCodes, m \in Metas, v \in Values,
       h \in Holders :
        LET R == regs[to]
            out == sendRegisterAsset(Chain, now, R.owner, to, c, m, v, h)
        IN  R.assets[c].isActive =>
                /\ ~out.ok
                /\ out.reason = ErrRegistered
                /\ out.regs = regs
                /\ out.por = por

\* C10 witness: AKTA is active and its owner's registerAsset for AKTA with
\* other, valid arguments is rejected as a duplicate
C10_Witness ==
    /\ regs[RegistryA].assets["AKTA"].isActive
    /\ regs[RegistryA].assets["AKTA"].assetName = AktaMeta.assetName
    /\ sendRegisterAsset(Chain, now, regs[RegistryA].owner, RegistryA,
                         "AKTA", OtherMeta, MaxValue, Deployer).reason =
           ErrRegistered

\* the pairs (value, holder) that registerAsset must refuse: the value is 0
\* (a uint256 is never below 0) or the holder is the zero address
RefusedPairs == ({0} \X Holders) \cup (Values \X {ZeroAddress})

\* C11: in every reachable state, registerAsset sent by the registry's owner
\* with value 0 or with the zero holder reverts and leaves the storage of
\* both contracts as it was (no record created or altered, getAssetCount and
\* assetCodes unchanged); for a code without active record the reason is
\* "Asset value must be greater than 0" when the value is 0 and "Invalid
\* holder address" when the value is positive and the holder is zero.
C11_InvalidRegisterWritesNothing ==
    \A to \in RegistryAddrs, c \in AssetCodes, m \in Metas,
       vh \in RefusedPairs :
        LET R == regs[to]
            out == sendRegisterAsset(Chain, now, R.owner, to, c, m, vh[1],
                                     vh[2])
        IN  /\ out = [ok |-> FALSE, reason |-> out.reason, logs |-> <<>>,
                      regs |-> regs, por |-> por]
            /\ getAssetCount(out.regs[to]) = getAssetCount(R)
            /\ ~R.assets[c].isActive =>
                   out.reason = IF vh[1] = 0 THEN ErrValue ELSE ErrHolder

\* C11 witness: the registry holds one active asset, AKTA has no record, and
\* its owner's registerAsset for AKTA is refused once for the value and once
\* for the holder
C11_Witness ==
    /\ regs[RegistryA].assetCodes = <<"BETA">>
    /\ regs[RegistryA].assets["BETA"].isActive
    /\ ~recordExists(regs[RegistryA], "AKTA")
    /\ sendRegisterAsset(Chain, now, regs[RegistryA].owner, RegistryA,
                         "AKTA", AktaMeta, 0, Deployer).reason = ErrValue
    /\ sendRegisterAsset(Chain, now, regs[RegistryA].owner, RegistryA,
                         "AKTA", AktaMeta, MaxValue, ZeroAddress).reason =
           ErrHolder

\* the indices of assetCodes, as getAssetCodeByIndex takes them
Indices(R) == 0 .. (Len(R.assetCodes) - 1)

\* C12: in every reachable state, after the owner's successful
\* deactivateAsset(code): getAsset(code) and verifyReportHash(code, h), for
\* every h, revert with "Asset does not exist or is inactive", getAssetCount
\* is as before, getAssetCodeByIndex returns at every index what it returned
\* before (the code is still found at its index) and assetCodes is unchanged.
C12_DeactivateKeepsSequence ==
    \A to \in RegistryAddrs, c \in AssetCodes :
        LET R == regs[to]
            out == sendDeactivateAsset(Chain, R.owner, to, c)
            R1 == out.regs[to]
        IN  R.assets[c].isActive =>
                /\ out.ok
                /\ getAsset(R1, c) = Revert(ErrInactive)
                /\ \A h \in ReportHashes :
                      verifyReportHash(R1, c, h) = Revert(ErrInactive)
                /\ getAssetCount(R1) = getAssetCount(R)
                /\ \A i \in Indices(R) :
                      getAssetCodeByIndex(R1, i) = getAssetCodeByIndex(R, i)
                /\ \E i \in Indices(R) : getAssetCodeByIndex(R1, i) = Return(c)
                /\ R1.assetCodes = R.assetCodes

\* C12 witness: AKTA was registered second and then deactivated: it is not
\* returned by getAsset and still found at index 1, next to the active BETA
C12_Witness ==
    /\ regs[RegistryA].assetCodes = <<"BETA", "AKTA">>
    /\ recordExists(regs[RegistryA], "AKTA")
    /\ getAsset(regs[RegistryA], "AKTA") = Revert(ErrInactive)
    /\ verifyReportHash(regs[RegistryA], "AKTA", AktaHash) =
           Revert(ErrInactive)
    /\ getAssetCodeByIndex(regs[RegistryA], 1) = Return("AKTA")
    /\ getAsset(regs[RegistryA], "BETA").ok

\* C13: in every reachable state, for every registry, code and candidate
\* hash h: verifyReportHash(code, h) reverts exactly when getAsset(code)
\* reverts, with "Asset does not exist or is inactive"; for an active code
\* it returns TRUE iff h is the stored reportHash, and for the all-zero h it
\* returns FALSE.
C13_VerifyHashIsEquality ==
    \A to \in RegistryAddrs, c \in AssetCodes, h \in ReportHashes :
        LET R == regs[to]
            res == verifyReportHash(R, c, h)
        IN  /\ res.ok <=> getAsset(R, c).ok
            /\ ~res.ok => res = Revert(ErrInactive)
            /\ res.ok =>
                  /\ res = Return(h = R.assets[c].reportHash)
                  /\ h = ZeroHash => res = Return(FALSE)

\* C14: assetCodes is append-only.  Across every step and for every
\* registry, getAssetCount does not decrease and getAssetCodeByIndex(i)
\* returns, for every i below the earlier count, the code it returned
\* before.
C14_SequenceAppendOnly ==
    [][\A r \in RegistryAddrs :
          /\ getAssetCount(regs'[r]).value >= getAssetCount(regs[r]).value
          /\ \A i \in Indices(regs[r]) :
                getAssetCodeByIndex(regs'[r], i) =
                    getAssetCodeByIndex(regs[r], i)]_vars

\* C14 witness: AKTA was appended first, BETA after it, and AKTA has been
\* deactivated since: both are still at their indices
C14_Witness ==
    /\ getAssetCount(regs[RegistryA]) = Return(2)
    /\ getAssetCodeByIndex(regs[RegistryA], 0) = Return("AKTA")
    /\ getAssetCodeByIndex(regs[RegistryA], 1) = Return("BETA")
    /\ ~regs[RegistryA].assets["AKTA"].isActive

\* C15: in every reachable state, submitProof sent by the proof-of-reserve
\* contract's owner reverts with the RedStone base contract's own failure
\* when the payload does not verify for the feed, and with "Invalid oracle
\* value" when the verified value is 0; either way the transaction emits
\* nothing and leaves every proof and every registry as they were.
C15_SubmitProofFailsClosed ==
    \A c \in AssetCodes, f \in DataFeedIds, p \in OraclePayloads :
        LET oracle == getOracleNumericValueFromTxMsg(p, f)
            out == sendSubmitProof(Chain, now, por.owner, p, c, f)
            refused(reason) ==
                out = [ok |-> FALSE, reason |-> reason, logs |-> <<>>,
                       regs |-> regs, por |-> por]
        IN  /\ ~oracle.ok => refused(oracle.reason)
            /\ (oracle.ok /\ oracle.value = 0) => refused(ErrOracleValue)

\* C15 witness: the contract owns the registry of the active AKTA and holds
\* a proof for it; its owner's submitProof is refused once for a payload
\* below the quorum and once for a verified value of 0
C15_Witness ==
    /\ regs[por.registry].owner = PoR
    /\ regs[por.registry].assets["AKTA"].isActive
    /\ por.latestProofs["AKTA"].timestamp > 0
    /\ sendSubmitProof(Chain, now, por.owner,
                       [dataFeedId |-> "AKTA", value |-> MaxValue,
                        quorum |-> FALSE], "AKTA", "AKTA").reason = ErrOracle
    /\ sendSubmitProof(Chain, now, por.owner,
                       [dataFeedId |-> "AKTA", value |-> 0,
                        quorum |-> TRUE], "AKTA", "AKTA").reason =
           ErrOracleValue

\* getLatestProof(assetCode) returns the "no proof yet" answer
noProofYet(P, assetCode) == getLatestProof(P, assetCode).value.timestamp = 0

\* C16: with block.timestamp > 0, in every reachable state and for every
\* code, getLatestProof(code).timestamp is 0 iff no submitProof for the code
\* has succeeded (the log holds no ProofSubmitted event for it);
\* getLatestProof succeeds for every code, and returns the all-zero record
\* for a code whose timestamp is 0.
C16_ZeroTimestampMeansNoProof ==
    \A c \in AssetCodes :
        /\ now > 0
        /\ getLatestProof(por, c).ok
        /\ noProofYet(por, c) <=> lastProofSubmitted[c] = <<>>
        /\ noProofYet(por, c) => getLatestProof(por, c) = Return(EmptyProof)

\* C16 witness: both assets are active in the contract's registry, a
\* submitProof has succeeded for AKTA and none for BETA
C16_Witness ==
    /\ regs[por.registry].assets["AKTA"].isActive
    /\ regs[por.registry].assets["BETA"].isActive
    /\ ~noProofYet(por, "AKTA")
    /\ lastProofSubmitted["AKTA"] # <<>>
    /\ getLatestProof(por, "BETA") = Return(EmptyProof)

\* the proof that a ProofSubmitted event reports
proofOf(event) ==
    [value |-> event[3], timestamp |-> event[4], dataFeedId |-> event[5]]

\* C17: only the latest proof is kept.  In every reachable state, for every
\* code with a successful submitProof, getLatestProof(code) is exactly the
\* {value, timestamp, feed} of the most recent one; and every successful
\* submitProof(code, F) with verified value V replaces the whole proof of
\* code by {V, block.timestamp, F} and leaves the proof of every other code
\* as it was.
C17_OnlyLatestProof ==
    /\ \A c \in AssetCodes :
          lastProofSubmitted[c] # <<>> =>
              getLatestProof(por, c) = Return(proofOf(lastProofSubmitted[c]))
    /\ \A s \in Senders, c \in AssetCodes, f \in DataFeedIds,
          p \in OraclePayloads :
          LET out == sendSubmitProof(Chain, now, s, p, c, f)
          IN  out.ok =>
                  out.por.latestProofs =
                      [por.latestProofs EXCEPT
                          ![c] = [value |-> verified(p, f),
                                  timestamp |-> now,
                                  dataFeedId |-> f]]

\* C17 witness: a proof was submitted for BETA in the first block and one
\* for AKTA, on another feed, in the last: each code has its own latest
C17_Witness ==
    /\ getLatestProof(por, "BETA") =
           Return([value |-> 1, timestamp |-> 1, dataFeedId |-> "XAU"])
    /\ getLatestProof(por, "AKTA") =
           Return([value |-> 1, timestamp |-> MaxTime, dataFeedId |-> "AKTA"])
    /\ lastProofSubmitted["AKTA"] =
           <<"ProofSubmitted", "AKTA", 1, MaxTime, "AKTA">>

\* C18: in every reachable state where the proof-of-reserve contract owns
\* the registry it references, for all arguments: the forwarding
\* registerAsset sent by the contract's owner fails exactly when the
\* registry's registerAsset called by the registry's owner fails, with the
\* same reason, and otherwise leaves the same registry storage, the same
\* events and everything else as it was; and registerAsset sent to that
\* registry by any account, the contract's owner included, reverts with the
\* owner-only reason.
C18_ForwardingIsSoleEntry ==
    regs[por.registry].owner = PoR =>
        \A c \in AssetCodes, m \in Metas, v \in Values, h \in Holders :
            LET R == regs[por.registry]
                direct == registerAsset(R, R.owner, now, c, m, v, h)
                out == sendPoRRegisterAsset(Chain, now, por.owner, c, m, v, h)
            IN  /\ out.ok <=> direct.ok
                /\ ~direct.ok =>
                      out = [ok |-> FALSE, reason |-> direct.reason,
                             logs |-> <<>>, regs |-> regs, por |-> por]
                /\ direct.ok =>
                      out = [ok |-> TRUE, reason |-> "",
                             logs |-> direct.logs,
                             regs |-> [regs EXCEPT
                                          ![por.registry] = direct.st],
                             por |-> por]
                /\ \A s \in EOAs :
                      sendRegisterAsset(Chain, now, s, por.registry, c, m, v,
                                        h).reason = ErrOnlyOwner

\* C18 witness: the contract owns its registry, which holds BETA; its
\* owner's registerAsset for AKTA succeeds through the contract and is
\* rejected when sent to the registry
C18_Witness ==
    /\ regs[por.registry].owner = PoR
    /\ regs[por.registry].assets["BETA"].isActive
    /\ ~recordExists(regs[por.registry], "AKTA")
    /\ sendPoRRegisterAsset(Chain, now, por.owner, "AKTA", AktaMeta,
                            MaxValue, Deployer).ok
    /\ sendRegisterAsset(Chain, now, por.owner, por.registry, "AKTA",
                         AktaMeta, MaxValue, Deployer).reason = ErrOnlyOwner

\* the registries as a call through the proof-of-reserve contract may leave
\* them: the referenced one with storage st, every other one as it was
onlyReferencedChanged(st) == [regs EXCEPT ![por.registry] = st]

\* C19: in every reachable state, updateRegistry(r) sent by the contract's
\* owner reverts with "Invalid registry address" for the zero address and
\* changes nothing; for any other r it succeeds and changes the contract's
\* registry reference to r and nothing else (owner, proofs and the storage
\* of every registry, the old and the new one, are as before).  And in
\* every reachable state, whichever registry is referenced, submitProof and
\* the forwarding registerAsset act on the referenced registry only: when
\* they succeed, its storage is what its updateAssetValue / registerAsset
\* called by the contract leaves and every other registry is as before.
C19_UpdateRegistryOnlyRetargets ==
    /\ \A r \in NewRegistries :
          LET out == sendUpdateRegistry(Chain, por.owner, r)
          IN  IF r = ZeroAddress
              THEN out = [ok |-> FALSE, reason |-> ErrRegistryAddr,
                          logs |-> <<>>, regs |-> regs, por |-> por]
              ELSE /\ out.ok
                   /\ out.por = [por EXCEPT !.registry = r]
                   /\ out.por.owner = por.owner
                   /\ out.por.latestProofs = por.latestProofs
                   /\ out.regs = regs
    /\ \A c \in AssetCodes, f \in DataFeedIds, p \in OraclePayloads :
          LET out == sendSubmitProof(Chain, now, por.owner, p, c, f)
              direct == updateAssetValue(regs[por.registry], PoR, now, c,
                                         verified(p, f))
          IN  out.regs = IF out.ok THEN onlyReferencedChanged(direct.st)
                         ELSE regs
    /\ \A c \in AssetCodes, m \in Metas, v \in Values, h \in Holders :
          LET out == sendPoRRegisterAsset(Chain, now, por.owner, c, m, v, h)
              direct == registerAsset(regs[por.registry], PoR, now, c, m, v, h)
          IN  out.regs = IF out.ok THEN onlyReferencedChanged(direct.st)
                         ELSE regs

\* C19 witness: a proof was submitted for AKTA through the first registry,
\* which the contract owns; the reference has been moved to the second
\* registry since, so that the owner's next submitProof for AKTA goes to the
\* second registry, which rejects it, and the first keeps its record
C19_Witness ==
    /\ por.registry = RegistryB
    /\ regs[RegistryA].owner = PoR
    /\ regs[RegistryA].assets["AKTA"].isActive
    /\ por.latestProofs["AKTA"].timestamp > 0
    /\ ~sendSubmitProof(Chain, now, por.owner,
                        [dataFeedId |-> "AKTA", value |-> MaxValue,
                         quorum |-> TRUE], "AKTA", "AKTA").ok
    /\ sendUpdateRegistry(Chain, por.owner, RegistryA).ok

\* the owner of every registry, by address
registryOwners(rs) == [r \in RegistryAddrs |-> rs[r].owner]

\* C20: each contract has one owner, never the zero address.  After
\* construction the owner of every contract is its deployer.  In every
\* reachable state: no owner is the zero address; transferOwnership(0) sent
\* by the owner reverts with "Invalid new owner address" and changes nothing;
\* a registry's transferOwnership, whoever sends it and whatever the new
\* owner, leaves the owner of the proof-of-reserve contract and of every
\* other registry as it was, and the proof-of-reserve contract's
\* transferOwnership leaves the owner of every registry as it was.
C20_OneOwnerNeverZero ==
    /\ por.owner = Deployer
    /\ \A r \in RegistryAddrs : regs[r].owner = Deployer
    /\ [](/\ por.owner \in Addresses \ {ZeroAddress}
          /\ \A r \in RegistryAddrs :
                /\ regs[r].owner \in Addresses \ {ZeroAddress}
                /\ sendTransferOwnership(Chain, regs[r].owner, r,
                                         ZeroAddress) =
                       [ok |-> FALSE, reason |-> ErrNewOwner, logs |-> <<>>,
                        regs |-> regs, por |-> por]
                /\ \A s \in Senders, o \in NewOwners :
                      LET out == sendTransferOwnership(Chain, s, r, o)
                      IN  /\ out.por.owner = por.owner
                          /\ \A q \in RegistryAddrs \ {r} :
                                out.regs[q].owner = regs[q].owner
          /\ sendPoRTransferOwnership(Chain, por.owner, ZeroAddress) =
                 [ok |-> FALSE, reason |-> ErrNewOwner, logs |-> <<>>,
                  regs |-> regs, por |-> por]
          /\ \A s \in Senders, o \in NewOwners :
                registryOwners(sendPoRTransferOwnership(Chain, s, o).regs) =
                    registryOwners(regs))

\* C20 witness: the first registry's ownership has moved to the second
\* signer while the proof-of-reserve contract and the second registry are
\* still the deployer's, and the new owner's transferOwnership(0) is refused
C20_Witness ==
    /\ regs[RegistryA].owner = Addr1
    /\ regs[RegistryB].owner = Deployer
    /\ por.owner = Deployer
    /\ sendTransferOwnership(Chain, Addr1, RegistryA, ZeroAddress).reason =
           ErrNewOwner

\* the fields of a record that only registerAsset writes
metadata(a) ==
    [assetName |-> a.assetName, reportingStandard |-> a.reportingStandard,
     jurisdiction |-> a.jurisdiction,
     mineralResourcesMt |-> a.mineralResourcesMt,
     goldOzInSitu |-> a.goldOzInSitu, reportHash |-> a.reportHash,
     holder |-> a.holder]

\* the transaction with outcome out leaves the metadata of every record that
\* exists as it was
keepsMetadata(out) ==
    \A r \in RegistryAddrs, c \in AssetCodes :
        recordExists(regs[r], c) =>
            metadata(out.regs[r].assets[c]) = metadata(regs[r].assets[c])

\* C21: metadata is immutable.  In every reachable state, every transaction
\* of either contract that writes asset records (registerAsset direct and
\* forwarded, updateAssetValue, deactivateAsset, submitProof), whoever sends
\* it and whatever its arguments, leaves name, reporting standard,
\* jurisdiction, both quantities, report hash and holder of every record that
\* exists as they were.
C21_MetadataImmutable ==
    \A s \in Senders, c \in AssetCodes :
        /\ \A to \in RegistryAddrs, m \in Metas, v \in Values, h \in EOAs :
              keepsMetadata(sendRegisterAsset(Chain, now, s, to, c, m, v, h))
        /\ \A m \in Metas, v \in Values, h \in EOAs :
              keepsMetadata(sendPoRRegisterAsset(Chain, now, s, c, m, v, h))
        /\ \A to \in RegistryAddrs, v \in Values :
              keepsMetadata(sendUpdateAssetValue(Chain, now, s, to, c, v))
        /\ \A to \in RegistryAddrs :
              keepsMetadata(sendDeactivateAsset(Chain, s, to, c))
        /\ \A f \in DataFeedIds, p \in OraclePayloads :
              keepsMetadata(sendSubmitProof(Chain, now, s, p, c, f))

\* C22: in every reachable state every record that exists in a registry,
\* active or not, has a holder other than the zero address.
C22_HolderNonZero ==
    \A r \in RegistryAddrs, c \in AssetCodes :
        recordExists(regs[r], c) => regs[r].assets[c].holder # ZeroAddress

\* C22 witness: the contract owns the registry; AKTA's record was
\* deactivated and BETA's is active, and both name their holder
C22_Witness ==
    /\ regs[RegistryA].owner = PoR
    /\ recordExists(regs[RegistryA], "AKTA")
    /\ ~regs[RegistryA].assets["AKTA"].isActive
    /\ regs[RegistryA].assets["AKTA"].holder = Deployer
    /\ regs[RegistryA].assets["BETA"].isActive
    /\ regs[RegistryA].assets["BETA"].holder = Deployer

\* C23: in every reachable state, an updateAssetValue(code, v) transaction
\* that succeeds sets the record's assetValueUsd to v and its lastUpdated to
\* block.timestamp and emits AssetUpdated(code, v, block.timestamp); every
\* other field of the record (isActive included), every other record,
\* assetCodes, the owner, every other registry and the proof-of-reserve
\* contract are as before.
C23_UpdateValueFrame ==
    \A to \in RegistryAddrs, s \in Senders, c \in AssetCodes, v \in Values :
        LET out == sendUpdateAssetValue(Chain, now, s, to, c, v)
        IN  out.ok =>
                out = [ok |-> TRUE, reason |-> "",
                       logs |-> << <<"AssetUpdated", c, v, now>> >>,
                       regs |-> [regs EXCEPT
                                    ![to].assets[c].assetValueUsd = v,
                                    ![to].assets[c].lastUpdated = now],
                       por |-> por]

\* C23 witness: in the last block the registry's owner, an account, can
\* give AKTA, registered in the first block next to BETA, another value
C23_Witness ==
    /\ now = MaxTime
    /\ regs[RegistryA].owner \in EOAs
    /\ regs[RegistryA].assets["BETA"].isActive
    /\ regs[RegistryA].assets["AKTA"].isActive
    /\ regs[RegistryA].assets["AKTA"].lastUpdated = 1
    /\ regs[RegistryA].assets["AKTA"].assetValueUsd = 1
    /\ sendUpdateAssetValue(Chain, now, regs[RegistryA].owner, RegistryA,
                            "AKTA", MaxValue).ok

\* C24: in every reachable state, updateAssetValue sent by the registry's
\* owner reverts with "Asset does not exist or is inactive" when the code
\* has no record or an inactive one, whatever the value, and with "Asset
\* value must be greater than 0" when the record is active and the value is
\* 0; either way it emits nothing and leaves the storage of both contracts
\* (the record's value and lastUpdated included) as it was.
C24_UpdateValueRefusals ==
    \A to \in RegistryAddrs, c \in AssetCodes, v \in Values :
        LET R == regs[to]
            out == sendUpdateAssetValue(Chain, now, R.owner, to, c, v)
            refused(reason) ==
                out = [ok |-> FALSE, reason |-> reason, logs |-> <<>>,
                       regs |-> regs, por |-> por]
        IN  /\ ~R.assets[c].isActive => refused(ErrInactive)
            /\ (R.assets[c].isActive /\ v = 0) => refused(ErrValue)

\* C24 witness: AKTA's record was deactivated and BETA's is active: the
\* owner's updateAssetValue is refused for AKTA as not found and for BETA
\* with value 0 as invalid
C24_Witness ==
    /\ recordExists(regs[RegistryA], "AKTA")
    /\ sendUpdateAssetValue(Chain, now, regs[RegistryA].owner, RegistryA,
                            "AKTA", MaxValue).reason = ErrInactive
    /\ sendUpdateAssetValue(Chain, now, regs[RegistryA].owner, RegistryA,
                            "BETA", 0).reason = ErrValue

\* the events named `name` among the events a transaction emitted
eventsNamed(name, logs) == SelectSeq(logs, LAMBDA e : e[1] = name)

\* C25: in every reachable state, every transferOwnership(newOwner)
\* transaction that succeeds, on a registry or on the proof-of-reserve
\* contract, emits one OwnershipTransferred(newOwner) event.
C25_TransferEmitsEvent ==
    \A s \in Senders, o \in NewOwners :
        /\ \A to \in RegistryAddrs :
              LET out == sendTransferOwnership(Chain, s, to, o)
              IN  out.ok =>
                      eventsNamed("OwnershipTransferred", out.logs) =
                          << <<"OwnershipTransferred", o>> >>
        /\ LET out == sendPoRTransferOwnership(Chain, s, o)
           IN  out.ok =>
                   eventsNamed("OwnershipTransferred", out.logs) =
                       << <<"OwnershipTransferred", o>> >>

\* the reporting standards the ingestion side knows
ReportingStandards == {"NI 43-101", "JORC", "GIA", "LBMA"}

\* C26: in every reachable state the reportingStandard of every record that
\* exists in a registry is one of NI 43-101, JORC, GIA, LBMA, and
\* registerAsset with any other standard, direct or forwarded, fails.
C26_StandardInClosedSet ==
    /\ \A r \in RegistryAddrs, c \in AssetCodes :
          recordExists(regs[r], c) =>
              regs[r].assets[c].reportingStandard \in ReportingStandards
    /\ \A s \in Senders, c \in AssetCodes, v \in Values, h \in Holders :
       \A m \in {x \in Metas : x.reportingStandard \notin ReportingStandards} :
          /\ \A to \in RegistryAddrs :
                ~sendRegisterAsset(Chain, now, s, to, c, m, v, h).ok
          /\ ~sendPoRRegisterAsset(Chain, now, s, c, m, v, h).ok

\* the indices getAssetCodeByIndex is called with: every index of a full
\* sequence and two beyond it
IndexInputs == 0 .. (MaxAssetCodes + 1)

\* C27: in every reachable state, for every registry and index,
\* getAssetCodeByIndex(index) reverts, with "Index out of bounds", exactly
\* when index >= getAssetCount(), and otherwise returns the code stored at
\* that position; on a registry with getAssetCount() = 0 it reverts for
\* every index.
C27_IndexOutOfBounds ==
    \A r \in RegistryAddrs, i \in IndexInputs :
        LET R == regs[r]
            res == getAssetCodeByIndex(R, i)
        IN  /\ ~res.ok <=> i >= getAssetCount(R).value
            /\ ~res.ok => res = Revert(ErrIndex)
            /\ res.ok => /\ res.value \in AssetCodes
                         /\ res = Return(R.assetCodes[i + 1])
            /\ getAssetCount(R).value = 0 => ~res.ok

\* C27 witness: the first registry holds two codes and answers for index 1
\* and not for index 2; the second registry is as deployed and answers for
\* no index
C27_Witness ==
    /\ getAssetCount(regs[RegistryA]) = Return(2)
    /\ getAssetCodeByIndex(regs[RegistryA], 1).ok
    /\ getAssetCodeByIndex(regs[RegistryA], 2) = Revert(ErrIndex)
    /\ getAssetCount(regs[RegistryB]) = Return(0)
    /\ getAssetCodeByIndex(regs[RegistryB], 0) = Revert(ErrIndex)

\* C28: in every reachable state, a submitProof transaction succeeds only
\* if the proof-of-reserve contract is the owner of the registry it
\* references; when the registry's owner is anyone else (the account that
\* owns the contract included), submitProof sent by the contract's owner
\* with a payload that verifies to a value > 0, for an asset active in the
\* registry, reverts with the registry's owner-only reason and leaves the
\* proof, the asset's value and all other storage as they were.
C28_SubmitProofNeedsRegistryOwnership ==
    \A s \in Senders, c \in AssetCodes, f \in DataFeedIds,
       p \in OraclePayloads :
        LET R == regs[por.registry]
            out == sendSubmitProof(Chain, now, s, p, c, f)
        IN  /\ out.ok => R.owner = PoR
            /\ (/\ R.owner # PoR
                /\ s = por.owner
                /\ verified(p, f) > 0
                /\ R.assets[c].isActive) =>
                   out = [ok |-> FALSE, reason |-> ErrOnlyOwner,
                          logs |-> <<>>, regs |-> regs, por |-> por]

\* C28 witness: the deployer owns the contract and the registry with the
\* active AKTA; the deployer's submitProof for AKTA with a verified value is
\* rejected by the registry
C28_Witness ==
    /\ por.owner = Deployer
    /\ regs[por.registry].owner = Deployer
    /\ regs[por.registry].assets["AKTA"].isActive
    /\ sendSubmitProof(Chain, now, Deployer,
                       [dataFeedId |-> "AKTA", value |-> MaxValue,
                        quorum |-> TRUE], "AKTA", "AKTA").reason =
           ErrOnlyOwner

\* C29: in every reachable state, for every code whose stored proof has a
\* timestamp other than 0, the registry the proof-of-reserve contract
\* references holds an active record for the code whose assetValueUsd is the
\* proof's value and whose lastUpdated is the proof's timestamp.
C29_ProofMatchesRegistry ==
    \A c \in AssetCodes :
        LET proof == getLatestProof(por, c).value
            asset == getAsset(regs[por.registry], c)
        IN  proof.timestamp # 0 =>
                /\ asset.ok
                /\ asset.value.assetValueUsd = proof.value
                /\ asset.value.lastUpdated = proof.timestamp

\* the transaction with outcome out leaves registry r with the
\* proof-of-reserve contract as its owner
staysWithPoR(out, r) == out.regs[r].owner = PoR

\* C30: a registry owned by the proof-of-reserve contract stays so.  In
\* every reachable state where a registry's owner is the contract, every
\* transaction an account can send to either contract, whatever its
\* arguments, leaves the registry's owner the contract (the registry's
\* transferOwnership is refused with the owner-only reason, and no function
\* of the contract reaches it); and no step changes such an owner.
C30_RegistryOwnershipPermanent ==
    /\ [](\A r \in RegistryAddrs : regs[r].owner = PoR =>
            \A s \in EOAs :
              /\ \A o \in NewOwners :
                    /\ sendTransferOwnership(Chain, s, r, o).reason =
                           ErrOnlyOwner
                    /\ staysWithPoR(sendPoRTransferOwnership(Chain, s, o), r)
              /\ \A n \in NewRegistries :
                    staysWithPoR(sendUpdateRegistry(Chain, s, n), r)
              /\ \A c \in AssetCodes :
                    /\ staysWithPoR(sendDeactivateAsset(Chain, s, r, c), r)
                    /\ \A v \in Values :
                          staysWithPoR(sendUpdateAssetValue(Chain, now, s, r,
                                                            c, v), r)
                    /\ \A f \in DataFeedIds, p \in OraclePayloads :
                          staysWithPoR(sendSubmitProof(Chain, now, s, p, c,
                                                       f), r)
                    /\ \A m \in Metas, v \in Values, h \in Holders :
                          /\ staysWithPoR(sendRegisterAsset(Chain, now, s, r,
                                                            c, m, v, h), r)
                          /\ staysWithPoR(sendPoRRegisterAsset(Chain, now, s,
                                                               c, m, v, h), r))
    /\ [][\A r \in RegistryAddrs :
             regs[r].owner = PoR => regs'[r].owner = PoR]_vars

\* C30 witness: the contract owned the registry when the proof for AKTA was
\* submitted in the first block and owns it in the last; the deployer's
\* attempt to take the registry back is refused
C30_Witness ==
    /\ now = MaxTime
    /\ regs[RegistryA].owner = PoR
    /\ por.latestProofs["AKTA"].timestamp = 1
    /\ sendTransferOwnership(Chain, Deployer, RegistryA, Deployer).reason =
           ErrOnlyOwner

\* the transaction with outcome out leaves every asset of registry r that is
\* active so
keepsActive(out, r) ==
    \A c \in AssetCodes :
        regs[r].assets[c].isActive => out.regs[r].assets[c].isActive

\* the transaction with outcome out leaves the assetValueUsd of every record
\* that exists in registry r as it was
keepsValues(out, r) ==
    \A c \in AssetCodes :
        recordExists(regs[r], c) =>
            out.regs[r].assets[c].assetValueUsd =
                regs[r].assets[c].assetValueUsd

\* C31: in every reachable state and for every registry whose owner is the
\* proof-of-reserve contract: deactivateAsset and updateAssetValue sent to
\* the registry by any account revert; every transaction an account can send
\* to either contract leaves every active asset of the registry active; every
\* transaction other than submitProof leaves the value of every record that
\* exists as it was; and a submitProof changes values only when it succeeds,
\* and then writes the proof of its code and gives the record of that code,
\* and no other, the proof's value.
C31_OnlyProofsRevalue ==
    \A r \in RegistryAddrs : regs[r].owner = PoR =>
        \A s \in EOAs, c \in AssetCodes :
            /\ ~sendDeactivateAsset(Chain, s, r, c).ok
            /\ \A v \in Values :
                  ~sendUpdateAssetValue(Chain, now, s, r, c, v).ok
            /\ \A o \in NewOwners :
                  LET out == sendTransferOwnership(Chain, s, r, o)
                  IN  keepsActive(out, r) /\ keepsValues(out, r)
            /\ \A o \in NewOwners :
                  LET out == sendPoRTransferOwnership(Chain, s, o)
                  IN  keepsActive(out, r) /\ keepsValues(out, r)
            /\ \A n \in NewRegistries :
                  LET out == sendUpdateRegistry(Chain, s, n)
                  IN  keepsActive(out, r) /\ keepsValues(out, r)
            /\ \A m \in Metas, v \in Values, h \in Holders :
                  /\ LET out == sendRegisterAsset(Chain, now, s, r, c, m, v, h)
                     IN  keepsActive(out, r) /\ keepsValues(out, r)
                  /\ LET out == sendPoRRegisterAsset(Chain, now, s, c, m, v, h)
                     IN  keepsActive(out, r) /\ keepsValues(out, r)
            /\ \A f \in DataFeedIds, p \in OraclePayloads :
                  LET out == sendSubmitProof(Chain, now, s, p, c, f)
                  IN  /\ keepsActive(out, r)
                      /\ ~out.ok => keepsValues(out, r) /\ out.por = por
                      /\ out.ok =>
                            /\ out.por.latestProofs[c] =
                                   [value |-> verified(p, f),
                                    timestamp |-> now, dataFeedId |-> f]
                            /\ out.regs[por.registry].assets[c].assetValueUsd
                                   = verified(p, f)
                            /\ \A q \in RegistryAddrs, d \in AssetCodes :
                                  (q # por.registry \/ d # c) =>
                                      out.regs[q].assets[d] = regs[q].assets[d]

\* C32: in every reachable state, for every sender and all arguments, a
\* transaction that reverts emits no event and one that succeeds emits
\* exactly: registerAsset, direct or forwarded, AssetRegistered(code, name,
\* value, reportHash); updateAssetValue AssetUpdated(code, value,
\* block.timestamp); deactivateAsset AssetDeactivated(code); submitProof
\* AssetUpdated(code, V, block.timestamp) followed by ProofSubmitted(code, V,
\* block.timestamp, feed) with V the verified value; updateRegistry
\* RegistryUpdated(newRegistry).  And every step that appends a
\* ProofSubmitted event to the log appends the event of the code's proof as
\* now stored, with the value and the time the step gave the record.
C32_EventsOfEachCall ==
    /\ [](\A s \in Senders :
            LET emits(out, events) ==
                    out.logs = IF out.ok THEN events ELSE <<>>
            IN  /\ \A c \in AssetCodes, m \in Metas, v \in Values,
                      h \in Holders :
                      LET registered ==
                              << <<"AssetRegistered", c, m.assetName, v,
                                   m.reportHash>> >>
                      IN  /\ \A to \in RegistryAddrs :
                                emits(sendRegisterAsset(Chain, now, s, to, c,
                                                        m, v, h), registered)
                          /\ emits(sendPoRRegisterAsset(Chain, now, s, c, m,
                                                        v, h), registered)
                /\ \A to \in RegistryAddrs, c \in AssetCodes :
                      /\ \A v \in Values :
                            emits(sendUpdateAssetValue(Chain, now, s, to, c,
                                                       v),
                                  << <<"AssetUpdated", c, v, now>> >>)
                      /\ emits(sendDeactivateAsset(Chain, s, to, c),
                               << <<"AssetDeactivated", c>> >>)
                /\ \A c \in AssetCodes, f \in DataFeedIds,
                      p \in OraclePayloads :
                      emits(sendSubmitProof(Chain, now, s, p, c, f),
                            << <<"AssetUpdated", c, verified(p, f), now>>,
                               <<"ProofSubmitted", c, verified(p, f), now,
                                 f>> >>)
                /\ \A r \in NewRegistries :
                      emits(sendUpdateRegistry(Chain, s, r),
                            << <<"RegistryUpdated", r>> >>))
    /\ [][\A c \in AssetCodes :
             lastProofSubmitted'[c] # lastProofSubmitted[c] =>
                 LET event == lastProofSubmitted'[c]
                     asset == regs'[por.registry].assets[c]
                 IN  /\ event[1] = "ProofSubmitted"
                     /\ event[2] = c
                     /\ event[3] = asset.assetValueUsd
                     /\ event[4] = now
                     /\ asset.lastUpdated = now
                     /\ proofOf(event) = por'.latestProofs[c]]_vars

\* C32 witness: the log holds the ProofSubmitted event of a submitProof for
\* AKTA in the last block; the contract's owner can submit again, which
\* emits the two events, and cannot deactivate AKTA directly, which emits
\* none
C32_Witness ==
    /\ now = MaxTime
    /\ lastProofSubmitted["AKTA"] =
           <<"ProofSubmitted", "AKTA", MaxValue, MaxTime, "XAU">>
    /\ Len(sendSubmitProof(Chain, now, por.owner,
                           [dataFeedId |-> "AKTA", value |-> 1,
                            quorum |-> TRUE], "AKTA", "AKTA").logs) = 2
    /\ ~sendDeactivateAsset(Chain, por.owner, por.registry, "AKTA").ok

\* C33: block.timestamp does not decrease, and then: across every step the
\* lastUpdated of every record of every registry does not decrease; in every
\* reachable state it is the block.timestamp of the latest successful
\* registerAsset, updateAssetValue or submitProof for the code on that
\* registry (0 when there was none); and deactivateAsset, whoever sends it,
\* leaves the lastUpdated of every record as it was.
C33_LastUpdatedIsLatestWrite ==
    /\ [][now' >= now]_vars
    /\ [][\A r \in RegistryAddrs, c \in AssetCodes :
             regs'[r].assets[c].lastUpdated >= regs[r].assets[c].lastUpdated]_vars
    /\ [](\A r \in RegistryAddrs, c \in AssetCodes :
            /\ regs[r].assets[c].lastUpdated = lastWritten[r][c]
            /\ \A s \in Senders, d \in AssetCodes :
                  sendDeactivateAsset(Chain, s, r, d).regs[r].assets[c]
                      .lastUpdated = regs[r].assets[c].lastUpdated)

\* C33 witness: BETA was registered in the first block and not written
\* since; AKTA, registered before it, was written again in the last block
\* and deactivated after that
C33_Witness ==
    /\ now = MaxTime
    /\ regs[RegistryA].assets["BETA"].lastUpdated = 1
    /\ regs[RegistryA].assets["BETA"].isActive
    /\ regs[RegistryA].assetCodes = <<"AKTA", "BETA">>
    /\ regs[RegistryA].assets["AKTA"].assetValueUsd = MaxValue
    /\ regs[RegistryA].assets["AKTA"].lastUpdated = MaxTime
    /\ lastWritten[RegistryA]["AKTA"] = MaxTime
    /\ ~regs[RegistryA].assets["AKTA"].isActive

\* C34: deactivateAsset is a soft delete.  In every reachable state, a
\* deactivateAsset(code) transaction that succeeds emits
\* AssetDeactivated(code) and changes the record's isActive to FALSE and
\* nothing else: every other field of the record (assetValueUsd, reportHash
\* and lastUpdated included), every other record, assetCodes, the owner,
\* every other registry and the proof-of-reserve contract are as before;
\* and a second deactivateAsset(code) by the same sender then reverts with
\* "Asset does not exist or is inactive" and changes nothing.
C34_DeactivateIsSoftDelete ==
    \A to \in RegistryAddrs, s \in Senders, c \in AssetCodes :
        LET out == sendDeactivateAsset(Chain, s, to, c)
            W1 == World(out.por, out.regs)
        IN  out.ok =>
                /\ out = [ok |-> TRUE, reason |-> "",
                          logs |-> << <<"AssetDeactivated", c>> >>,
                          regs |-> [regs EXCEPT
                                       ![to].assets[c].isActive = FALSE],
                          por |-> por]
                /\ sendDeactivateAsset(W1, s, to, c) =
                       [ok |-> FALSE, reason |-> ErrInactive, logs |-> <<>>,
                        regs |-> W1.regs, por |-> W1.por]

\* C34 witness: AKTA, revalued in the last block, was deactivated and keeps
\* its value, hash and time next to the active BETA; the owner's second
\* deactivateAsset(AKTA) is refused, the first for BETA would succeed
C34_Witness ==
    /\ ~regs[RegistryA].assets["AKTA"].isActive
    /\ regs[RegistryA].assets["AKTA"].assetValueUsd = MaxValue
    /\ regs[RegistryA].assets["AKTA"].reportHash = AktaHash
    /\ regs[RegistryA].assets["AKTA"].lastUpdated = MaxTime
    /\ regs[RegistryA].assetCodes = <<"BETA", "AKTA">>
    /\ sendDeactivateAsset(Chain, regs[RegistryA].owner, RegistryA,
                           "AKTA").reason = ErrInactive
    /\ sendDeactivateAsset(Chain, regs[RegistryA].owner, RegistryA,
                           "BETA").ok

\* the codes that occur in assetCodes
codesInSequence(R) == {R.assetCodes[i] : i \in 1..Len(R.assetCodes)}

\* the mapping holds a record for assetCode: a slot with a holder and a value
holdsRecord(R, assetCode) ==
    /\ R.assets[assetCode].holder # ZeroAddress
    /\ R.assets[assetCode].assetValueUsd > 0

\* C35: in every reachable state and for every registry, a code occurs in
\* assetCodes iff assets holds a record for it (a slot with non-zero holder
\* and assetValueUsd > 0, active or not; every other slot is as never
\* written), and every active code occurs in assetCodes.
C35_SequenceMatchesMapping ==
    \A r \in RegistryAddrs, c \in AssetCodes :
        LET R == regs[r]
        IN  /\ c \in codesInSequence(R) <=> holdsRecord(R, c)
            /\ ~holdsRecord(R, c) => R.assets[c] = EmptyAsset
            /\ R.assets[c].isActive => c \in codesInSequence(R)

\* C35 witness: AKTA was registered and deactivated, BETA never registered:
\* AKTA is in the sequence with a record that is not active, BETA is in
\* neither
C35_Witness ==
    /\ regs[RegistryA].assetCodes = <<"AKTA">>
    /\ holdsRecord(regs[RegistryA], "AKTA")
    /\ ~regs[RegistryA].assets["AKTA"].isActive
    /\ ~holdsRecord(regs[RegistryA], "BETA")
    /\ regs[RegistryA].owner = PoR

\* the reason registerAsset reports when several of its conditions fail: the
\* first, in the order caller, duplicate, value, holder ("" when none fails)
firstFailure(R, sender, assetCode, assetValueUsd, holderAddress) ==
    IF sender # R.owner THEN ErrOnlyOwner
    ELSE IF R.assets[assetCode].isActive THEN ErrRegistered
    ELSE IF assetValueUsd = 0 THEN ErrValue
    ELSE IF holderAddress = ZeroAddress THEN ErrHolder
    ELSE ""

\* C36: in every reachable state, for every registry, sender and arguments,
\* registerAsset succeeds iff none of its four conditions fails and
\* otherwise reverts with the reason of the first that fails in the order
\* owner-only, already registered, value, holder.
C36_RegisterFailureOrder ==
    \A to \in RegistryAddrs, s \in Senders, c \in AssetCodes, m \in Metas,
       v \in Values, h \in Holders :
        LET out == sendRegisterAsset(Chain, now, s, to, c, m, v, h)
            first == firstFailure(regs[to], s, c, v, h)
        IN  /\ out.ok <=> first = ""
            /\ out.reason = first

\* C36 witness: AKTA is active and BETA has no record in the deployer's
\* registry: with value 0 and the zero holder, the second signer's
\* registerAsset(AKTA) is refused as not the owner, the owner's as a
\* duplicate, and the owner's registerAsset(BETA) for its value
C36_Witness ==
    /\ regs[RegistryA].owner = Deployer
    /\ regs[RegistryA].assets["AKTA"].isActive
    /\ ~recordExists(regs[RegistryA], "BETA")
    /\ sendRegisterAsset(Chain, now, Addr1, RegistryA, "AKTA", AktaMeta, 0,
                         ZeroAddress).reason = ErrOnlyOwner
    /\ sendRegisterAsset(Chain, now, Deployer, RegistryA, "AKTA", AktaMeta,
                         0, ZeroAddress).reason = ErrRegistered
    /\ sendRegisterAsset(Chain, now, Deployer, RegistryA, "BETA", OtherMeta,
                         0, ZeroAddress).reason = ErrValue

\* C37: in every reachable state, for every sender and all arguments,
\* submitProof reverts with the reason of the first check that fails in the
\* order: caller is the contract's owner (owner-only reason, whatever the
\* payload), the payload verifies for the feed (the RedStone failure,
\* whatever the asset), the verified value is above 0 ("Invalid oracle
\* value", whatever the asset), registry.updateAssetValue (the registry's
\* reason); it succeeds iff none fails.
C37_SubmitProofFailureOrder ==
    \A s \in Senders, c \in AssetCodes, f \in DataFeedIds,
       p \in OraclePayloads :
        LET out == sendSubmitProof(Chain, now, s, p, c, f)
            oracle == getOracleNumericValueFromTxMsg(p, f)
            sub == callUpdateAssetValue(regs, por.registry, now, c,
                                        verified(p, f))
            first == IF s # por.owner THEN ErrOnlyOwner
                     ELSE IF ~oracle.ok THEN oracle.reason
                     ELSE IF oracle.value = 0 THEN ErrOracleValue
                     ELSE sub.reason
        IN  /\ out.reason = first
            /\ out.ok <=> (/\ s = por.owner
                           /\ oracle.ok
                           /\ oracle.value > 0
                           /\ sub.ok)

\* C37 witness: the contract owns its registry, where AKTA was deactivated
\* and BETA never registered.  The second signer's submitProof with a
\* payload below the quorum is refused as not the owner; the owner's with
\* that payload for BETA as not verified; the owner's with a verified 0 for
\* AKTA and for BETA as an invalid oracle value; the owner's with a verified
\* value above 0 for AKTA by the registry
C37_Witness ==
    LET below == [dataFeedId |-> "AKTA", value |-> MaxValue, quorum |-> FALSE]
        zero == [dataFeedId |-> "AKTA", value |-> 0, quorum |-> TRUE]
        good == [dataFeedId |-> "AKTA", value |-> MaxValue, quorum |-> TRUE]
    IN  /\ por.owner = Deployer
        /\ regs[por.registry].owner = PoR
        /\ recordExists(regs[por.registry], "AKTA")
        /\ ~regs[por.registry].assets["AKTA"].isActive
        /\ ~recordExists(regs[por.registry], "BETA")
        /\ sendSubmitProof(Chain, now, Addr1, below, "AKTA", "AKTA").reason =
               ErrOnlyOwner
        /\ sendSubmitProof(Chain, now, Deployer, below, "BETA", "AKTA").reason
               = ErrOracle
        /\ sendSubmitProof(Chain, now, Deployer, zero, "AKTA", "AKTA").reason
               = ErrOracleValue
        /\ sendSubmitProof(Chain, now, Deployer, zero, "BETA", "AKTA").reason
               = ErrOracleValue
        /\ sendSubmitProof(Chain, now, Deployer, good, "AKTA", "AKTA").reason
               = ErrInactive

\* C38: in every reachable state, for every caller, feed and payload,
\* getOracleValue(feed) answers exactly as the RedStone base contract does:
\* it returns the verified value, a verified 0 included (which submitProof
\* sent by the contract's owner refuses with "Invalid oracle value"), it
\* reverts exactly when the verification reverts, with the same failure, and
\* it leaves the storage of the proof-of-reserve contract and of every
\* registry as it was.
C38_GetOracleValuePassThrough ==
    \A s \in Addresses \ {ZeroAddress}, f \in DataFeedIds,
       p \in OraclePayloads :
        LET call == callGetOracleValue(Chain, s, p, f)
            oracle == getOracleNumericValueFromTxMsg(p, f)
        IN  /\ call.res = oracle
            /\ call.res.ok <=> oracle.ok
            /\ (oracle.ok /\ oracle.value = 0) =>
                  /\ call.res = Return(0)
                  /\ \A c \in AssetCodes :
                        sendSubmitProof(Chain, now, por.owner, p, c, f).reason
                            = ErrOracleValue
            /\ call.regs = regs
            /\ call.por = por

\* C38 witness: the contract, now the second signer's, owns the registry of
\* the active AKTA and holds a proof for it; the deployer, no longer the
\* owner, reads a verified value, a verified 0 that submitProof refuses, and
\* gets the verification failure for a payload below the quorum
C38_Witness ==
    /\ por.owner = Addr1
    /\ regs[por.registry].owner = PoR
    /\ regs[por.registry].assets["AKTA"].isActive
    /\ por.latestProofs["AKTA"].timestamp > 0
    /\ callGetOracleValue(Chain, Deployer,
                          [dataFeedId |-> "AKTA", value |-> MaxValue,
                           quorum |-> TRUE], "AKTA").res = Return(MaxValue)
    /\ callGetOracleValue(Chain, Deployer,
                          [dataFeedId |-> "AKTA", value |-> 0,
                           quorum |-> TRUE], "AKTA").res = Return(0)
    /\ sendSubmitProof(Chain, now, Addr1,
                       [dataFeedId |-> "AKTA", value |-> 0, quorum |-> TRUE],
                       "AKTA", "AKTA").reason = ErrOracleValue
    /\ callGetOracleValue(Chain, Deployer,
                          [dataFeedId |-> "AKTA", value |-> MaxValue,
                           quorum |-> FALSE], "AKTA").res = Revert(ErrOracle)

====
